---- MODULE Spec2Model ----
(***************************************************************************)
(* Model of the documentation scrape-and-embed pipeline:                   *)
(*   docs-scraper-workflow.ts  prepareUrls -> foreach(processIndexUrl,     *)
(*                             concurrency 2) -> aggregateResults ->       *)
(*                             chunkAndEmbed                               *)
(*   embed-docs-workflow.ts    discoverFiles -> chunkAndEmbed              *)
(* Strings are sequences of one-character strings.  Every await of the     *)
(* source is a separate step of the model.                                 *)
(***************************************************************************)
EXTENDS Integers, Sequences, FiniteSets, TLC

VARIABLES
  workflow,      \* which workflow runs: "docsScraper" or "embedDocs"
  wf,            \* the workflow's current step
  indexUrls,     \* input of the scraper workflow: sequence of index pages
  siteShift,     \* which listing the remote site serves for which page
  chunkAt,       \* foreach: 1-based position of the first item of the chunk
  unit,          \* per input position: the processIndexUrl execution
  results,       \* foreach: outputs pushed so far, in push order
  settledOrder,  \* the items in the order in which their step settled
  agg,           \* output of aggregateResults
  dirExists,     \* output/docs exists
  disk,          \* output/docs: filename -> file content
  lastWrite,     \* per filename: the fs.writeFile that resolved last
  ePc,           \* chunkAndEmbed: position in execute
  eFiles,        \* chunkAndEmbed: the file list it was given
  eI,            \* chunkAndEmbed: i of the batch loop (1-based)
  eJ,            \* chunkAndEmbed: position of the next file inside the batch
  batch,         \* chunkAndEmbed: allChunkMetadata (text included) of the batch
  totalChunks,   \* chunkAndEmbed: running total
  totalEmbedded, \* chunkAndEmbed: running total
  eResult,       \* chunkAndEmbed: returned totals, or NoResult
  storeOps,      \* chunkAndEmbed: its calls to the vector store, the embedding
                 \* provider and readFile so far, in order
  index,         \* the vector store: [exists, recs]
  startIndex,    \* the vector store as the current run found it
  run,           \* number of the current run of the workflow
  history,       \* per finished run: what it returned and left in the index
  pure,          \* a pure function under evaluation: its input and its results
  seen,          \* what the knowledge tool's last query found in the store
  startup        \* the createIndex call issued when vector-store.ts is loaded

scrapeVars == <<indexUrls, siteShift, chunkAt, unit, results, settledOrder, agg>>
diskVars == <<dirExists, disk, lastWrite>>
embedVars == <<ePc, eFiles, eI, eJ, batch, totalChunks, totalEmbedded, eResult,
              storeOps>>
vars == <<workflow, wf, scrapeVars, diskVars, embedVars, index, startIndex, run,
          history, pure, seen, startup>>

----------------------------------------------------------------------------
(* Bounds of the model *)

MaxPages == 4
MaxFiles == 12
MaxRuns == 2
MaxPattern == 2
MaxTitleLen == 2
MaxOver == 1
MaxAnchors == 3

(* Program constants *)

Concurrency == 2
BATCH_SIZE == 10
SlugLimit == 100
EMBEDDING_DIMENSION == 1536

NoResult == [none |-> TRUE]

\* no pure function is under evaluation
NoPure == [fn |-> "none"]

\* the knowledge tool has not queried the store
NoQuery == [none |-> TRUE]

----------------------------------------------------------------------------
(* Strings *)

Last(s) == s[Len(s)]
Front(s) == SubSeq(s, 1, Len(s) - 1)
Min(a, b) == IF a < b THEN a ELSE b

RECURSIVE Flatten(_)
Flatten(ss) == IF ss = <<>> THEN <<>> ELSE Head(ss) \o Flatten(Tail(ss))

RECURSIVE SumSeq(_)
SumSeq(ns) == IF ns = <<>> THEN 0 ELSE Head(ns) + SumSeq(Tail(ns))

IsSpace(c) == c \in {" ", "\n", "\t"}

RECURSIVE TrimStart(_)
TrimStart(s) ==
  IF s # <<>> /\ IsSpace(Head(s)) THEN TrimStart(Tail(s)) ELSE s

RECURSIVE TrimEnd(_)
TrimEnd(s) ==
  IF s # <<>> /\ IsSpace(Last(s)) THEN TrimEnd(Front(s)) ELSE s

\* String.prototype.trim
Trim(s) == TrimEnd(TrimStart(s))

----------------------------------------------------------------------------
(* sanitizeFilename *)

LowerAlnum == {"a", "b", "c", "d", "e", "0", "1"}

\* toLowerCase, one character
ToLower(c) ==
  CASE c = "A" -> "a"
    [] c = "B" -> "b"
    [] c = "C" -> "c"
    [] c = "D" -> "d"
    [] c = "E" -> "e"
    [] c = "E'" -> "e'"
    [] OTHER -> c

\* normalize('NFD'), one character: a precomposed accented letter becomes the
\* base letter followed by the combining mark ("e'" stands for U+00E9 and "'"
\* for the combining acute accent U+0301)
Decompose(c) == IF c = "e'" THEN <<"e", "'">> ELSE <<c>>

IsCombining(c) == c = "'"

MapLower(s) == [k \in 1..Len(s) |-> ToLower(s[k])]

\* every character gives the one or two characters of its decomposition (""
\* fills the place of the second where there is none)
NormalizeNFD(s) ==
  LET parts == [k \in 1..(2 * Len(s)) |->
                  LET d == Decompose(s[(k + 1) \div 2])
                  IN IF k % 2 = 1 THEN d[1]
                     ELSE IF Len(d) = 2 THEN d[2] ELSE ""]
  IN SelectSeq(parts, LAMBDA c : c # "")

\* .replace(/[\u0300-\u036f]/g, '')
StripDiacritics(s) == SelectSeq(s, LAMBDA c : ~IsCombining(c))

\* .replace(/[^a-z0-9]+/g, '-'): the first character of every run of other
\* characters becomes a hyphen and the rest of the run goes ("" marks a
\* character that goes)
Hyphenate(s) ==
  LET mark == [k \in 1..Len(s) |->
                 IF s[k] \in LowerAlnum THEN s[k]
                 ELSE IF k > 1 /\ s[k - 1] \notin LowerAlnum THEN "" ELSE "-"]
  IN SelectSeq(mark, LAMBDA c : c # "")

RECURSIVE DropLeadingHyphens(_)
DropLeadingHyphens(s) ==
  IF s # <<>> /\ Head(s) = "-" THEN DropLeadingHyphens(Tail(s)) ELSE s

RECURSIVE DropTrailingHyphens(_)
DropTrailingHyphens(s) ==
  IF s # <<>> /\ Last(s) = "-" THEN DropTrailingHyphens(Front(s)) ELSE s

\* .replace(/^-+|-+$/g, '')
TrimHyphens(s) == DropTrailingHyphens(DropLeadingHyphens(s))

\* no truncation
SliceAll(s, n) == s

\* .slice(0, 100)
Slice(s, n) == SubSeq(s, 1, Min(Len(s), n))

sanitizeFilename(title) ==
  Slice(TrimHyphens(Hyphenate(StripDiacritics(NormalizeNFD(MapLower(title))))),
        SlugLimit)

\* `${sanitizeFilename(link.title)}.md`
FilenameOf(title) == Append(sanitizeFilename(title), ".md")

----------------------------------------------------------------------------
(* Frontmatter *)

\* link.title.replace(/"/g, '\\"')
RECURSIVE EscapeQuotes(_)
EscapeQuotes(s) ==
  IF s = <<>> THEN <<>>
  ELSE IF Head(s) = "\"" THEN <<"\\", "\"">> \o EscapeQuotes(Tail(s))
       ELSE <<Head(s)>> \o EscapeQuotes(Tail(s))

\* frontmatter + markdown, as the fields the file carries: the text written
\* between the quotes of the title and source lines, and the Markdown body
FileContent(link, body) ==
  [title |-> EscapeQuotes(link.title), source |-> link.url, body |-> body]

\* /title:\s*"(.+?)"/ applied to  title: "<text>" : the lazy group takes at
\* least one character and stops at the first double quote after it
RECURSIVE UpToQuote(_)
UpToQuote(s) ==
  IF s = <<>> \/ Head(s) = "\"" THEN <<>> ELSE <<Head(s)>> \o UpToQuote(Tail(s))

QuotedField(text) ==
  IF text = <<>> THEN <<>> ELSE <<Head(text)>> \o UpToQuote(Tail(text))

----------------------------------------------------------------------------
(* The remote help site, as the fetches of a run see it *)

SiteHost == "napoveda"
NoHref == [none |-> TRUE]
RelHref(article, id) == [abs |-> FALSE, host |-> "", article |-> article, id |-> id]
AbsHref(article, id) == [abs |-> TRUE, host |-> SiteHost, article |-> article, id |-> id]
Anchor(href, text) == [href |-> href, text |-> text]

\* the a.row anchors of the four kinds of index page the site serves
Listing(kind) ==
  CASE kind = 0 ->
         << Anchor(RelHref(TRUE, 1), <<"A">>),
            Anchor(AbsHref(TRUE, 2), <<" ", "a", "!">>),
            Anchor(RelHref(TRUE, 3), <<"E'", "\"", "c">>) >>
    [] kind = 1 ->
         << Anchor(RelHref(TRUE, 4), <<"D">>),
            Anchor(NoHref, <<"B">>),
            Anchor(RelHref(FALSE, 9), <<"B">>),
            Anchor(RelHref(TRUE, 8), <<" ", " ">>),
            Anchor(AbsHref(TRUE, 4), <<"D">>) >>
    [] kind = 2 ->
         << Anchor(NoHref, <<"B">>), Anchor(RelHref(FALSE, 9), <<"C">>) >>
    [] OTHER ->
         << Anchor(AbsHref(TRUE, 5), <<"-", "A">>) >>

ListingKinds == 4

\* the Markdown the converter produces for an article's content container: a
\* sequence of sections, each a heading (or none) and the text under it
Section(heading, text) == [heading |-> heading, text |-> text]

ArticleBody(id) ==
  CASE id = 1 -> << Section("h1", <<"x">>), Section("h2", <<" ">>) >>
    [] id = 2 -> << Section("", <<"y">>) >>
    [] id = 3 -> << >>
    [] id = 4 -> << Section("h1", <<"x">>), Section("h2", <<"y">>) >>
    [] OTHER -> << Section("", <<"z">>) >>

----------------------------------------------------------------------------
(* processIndexUrl: link extraction *)

\* const baseUrl = `${parsedUrl.protocol}//${parsedUrl.host}`
BaseUrlOf(indexUrl) == SiteHost

\* the title is not looked at
ValidAnchorAnyTitle(a) ==
  /\ a.href # NoHref
  /\ a.href.article

\* href && title && href.includes('/support/solutions/articles/')
ValidAnchor(a) ==
  /\ a.href # NoHref
  /\ Trim(a.text) # <<>>
  /\ a.href.article

\* href.startsWith('http') ? href : `${baseUrl}${href}`
FullUrl(href, baseUrl) ==
  [host |-> IF href.abs THEN href.host ELSE baseUrl, id |-> href.id]

RECURSIVE ExtractLinks(_, _)
ExtractLinks(anchors, baseUrl) ==
  IF anchors = <<>> THEN <<>>
  ELSE LET a == Head(anchors)
           rest == ExtractLinks(Tail(anchors), baseUrl)
       IN IF ValidAnchor(a)
          THEN <<[url |-> FullUrl(a.href, baseUrl), title |-> Trim(a.text)]>> \o rest
          ELSE rest

\* a category page with more articles than one batch of chunkAndEmbed holds:
\* BATCH_SIZE articles of different titles, then the first of them once more
LongTitles ==
  << <<"a">>, <<"b">>, <<"c">>, <<"d">>, <<"e">>, <<"0">>, <<"1">>,
     <<"a", "0">>, <<"a", "1">>, <<"b", "0">> >>

LongListing ==
  [k \in 1..(BATCH_SIZE + 1) |->
     LET i == ((k - 1) % BATCH_SIZE) + 1
     IN Anchor(RelHref(TRUE, BATCH_SIZE + i), LongTitles[i])]

\* the value of siteShift under which every index page is the long page
LongSite == ListingKinds

\* what the site serves for the index page at input position p
AnchorsOf(indexUrl, shift) ==
  IF shift = LongSite THEN LongListing
  ELSE Listing((indexUrl + shift) % ListingKinds)

----------------------------------------------------------------------------
(* processIndexUrl: one execution per item of the foreach *)

Pending == [pc |-> "pending", indexOk |-> FALSE, links |-> <<>>, li |-> 0,
            processed |-> 0, files |-> <<>>, log |-> <<>>, written |-> <<>>]

InFlightPcs == {"fetchIndex", "delay", "fetchArticle", "write", "close"}
InFlight(p) == unit[p].pc \in InFlightPcs
Settled(p) == unit[p].pc \in {"done", "failed"}

\* the delay is taken before every fetch, the first one included
LoopHeadAlwaysDelays(u) ==
  IF u.li > Len(u.links) THEN [u EXCEPT !.pc = "done"]
  ELSE [u EXCEPT !.pc = "delay", !.log = Append(@, "pause")]

\* top of the for loop for the link at u.li, up to its first await:
\* the loop ends, or the 500ms delay starts, or the fetch is issued
LoopHead(u) ==
  IF u.li > Len(u.links) THEN [u EXCEPT !.pc = "done"]
  ELSE IF u.processed > 0
       THEN [u EXCEPT !.pc = "delay", !.log = Append(@, "pause")]
       ELSE [u EXCEPT !.pc = "fetchArticle", !.log = Append(@, "fetch")]

\* continue, or the catch block: on to the next link
NextLink(u) == LoopHead([u EXCEPT !.li = @ + 1])

\* the step goes on as u; a step that returns or throws has settled
SetUnit(p, u) ==
  /\ unit' = [unit EXCEPT ![p] = u]
  /\ settledOrder' = IF u.pc \in {"done", "failed"}
                     THEN Append(settledOrder, p) ELSE settledOrder

\* await fetch(indexUrl) answers with a non-success status: the step throws
IndexFetchFails(p) ==
  /\ unit[p].pc = "fetchIndex"
  /\ SetUnit(p, [unit[p] EXCEPT !.pc = "failed"])
  /\ UNCHANGED <<workflow, wf, indexUrls, siteShift, chunkAt, results, agg,
                 diskVars, pure, seen, startup, embedVars, index, startIndex, run, history>>

\* a page without a valid link makes the step throw
IndexFetchedStrict(p) ==
  /\ unit[p].pc = "fetchIndex"
  /\ LET links == ExtractLinks(AnchorsOf(indexUrls[p], siteShift),
                               BaseUrlOf(indexUrls[p]))
     IN IF Len(links) = 0
        THEN /\ SetUnit(p, [unit[p] EXCEPT !.pc = "failed", !.indexOk = TRUE])
             /\ UNCHANGED diskVars
        ELSE /\ SetUnit(p, LoopHead([unit[p] EXCEPT !.indexOk = TRUE,
                                                     !.links = links, !.li = 1]))
             /\ dirExists' = TRUE
             /\ UNCHANGED <<disk, lastWrite>>
  /\ UNCHANGED <<workflow, wf, indexUrls, siteShift, chunkAt, results, agg,
                 pure, seen, startup, embedVars, index, startIndex, run, history>>

\* await fetch(indexUrl) succeeds: links are extracted; with no link the step
\* returns at once, otherwise output/docs is created and the loop is entered
IndexFetched(p) ==
  /\ unit[p].pc = "fetchIndex"
  /\ LET links == ExtractLinks(AnchorsOf(indexUrls[p], siteShift),
                               BaseUrlOf(indexUrls[p]))
     IN IF Len(links) = 0
        THEN /\ SetUnit(p, [unit[p] EXCEPT !.pc = "done", !.indexOk = TRUE])
             /\ UNCHANGED diskVars
        ELSE /\ SetUnit(p, LoopHead([unit[p] EXCEPT !.indexOk = TRUE,
                                                     !.links = links, !.li = 1]))
             /\ dirExists' = TRUE
             /\ UNCHANGED <<disk, lastWrite>>
  /\ UNCHANGED <<workflow, wf, indexUrls, siteShift, chunkAt, results, agg,
                 pure, seen, startup, embedVars, index, startIndex, run, history>>

\* a limiter shared by the units holds the fetch back while another unit has
\* a request outstanding
DelayElapsedWhenHostIdle(p) ==
  /\ unit[p].pc = "delay"
  /\ \A q \in DOMAIN unit \ {p} : unit[q].pc \notin {"fetchIndex", "fetchArticle"}
  /\ SetUnit(p, [unit[p] EXCEPT !.pc = "fetchArticle", !.log = Append(@, "fetch")])
  /\ UNCHANGED <<workflow, wf, indexUrls, siteShift, chunkAt, results, agg,
                 diskVars, pure, seen, startup, embedVars, index, startIndex, run, history>>

\* await delay(500) is over: the fetch of the link is issued
DelayElapsed(p) ==
  /\ unit[p].pc = "delay"
  /\ SetUnit(p, [unit[p] EXCEPT !.pc = "fetchArticle", !.log = Append(@, "fetch")])
  /\ UNCHANGED <<workflow, wf, indexUrls, siteShift, chunkAt, results, agg,
                 diskVars, pure, seen, startup, embedVars, index, startIndex, run, history>>

\* the failure of an article ends the step
SkipArticleAborts(p) ==
  /\ unit[p].pc = "fetchArticle"
  /\ SetUnit(p, [unit[p] EXCEPT !.pc = "failed"])
  /\ UNCHANGED <<workflow, wf, indexUrls, siteShift, chunkAt, results, agg,
                 diskVars, pure, seen, startup, embedVars, index, startIndex, run, history>>

SkipArticle(p) ==
  /\ unit[p].pc = "fetchArticle"
  /\ SetUnit(p, NextLink(unit[p]))
  /\ UNCHANGED <<workflow, wf, indexUrls, siteShift, chunkAt, results, agg,
                 diskVars, pure, seen, startup, embedVars, index, startIndex, run, history>>

\* !response.ok: logged, continue
ArticleBadStatus(p) == SkipArticle(p)

\* the rejected fetch is issued once more
ArticleNetworkErrorRetried(p) ==
  /\ unit[p].pc = "fetchArticle"
  /\ Len(SelectSeq(unit[p].log, LAMBDA e : e = "fetch")) = unit[p].li
  /\ SetUnit(p, [unit[p] EXCEPT !.log = Append(@, "fetch")])
  /\ UNCHANGED <<workflow, wf, indexUrls, siteShift, chunkAt, results, agg,
                 diskVars, pure, seen, startup, embedVars, index, startIndex, run, history>>

\* fetch rejects (network error): caught, logged
ArticleNetworkError(p) == SkipArticle(p)

\* contentElement.length === 0: logged, continue
ArticleNoContent(p) == SkipArticle(p)

\* !contentHtml: logged, continue
ArticleEmptyContent(p) == SkipArticle(p)

\* fs.writeFile is issued and the next article's fetch with it
ArticleConvertedPipelined(p) ==
  /\ unit[p].pc = "fetchArticle"
  /\ SetUnit(p, [unit[p] EXCEPT !.pc = "write",
                                !.log = IF unit[p].li < Len(unit[p].links)
                                        THEN Append(@, "fetch") ELSE @])
  /\ UNCHANGED <<workflow, wf, indexUrls, siteShift, chunkAt, results, agg,
                 diskVars, pure, seen, startup, embedVars, index, startIndex, run, history>>

\* the article is fetched and converted; fs.writeFile is issued
ArticleConverted(p) ==
  /\ unit[p].pc = "fetchArticle"
  /\ SetUnit(p, [unit[p] EXCEPT !.pc = "write"])
  /\ UNCHANGED <<workflow, wf, indexUrls, siteShift, chunkAt, results, agg,
                 diskVars, pure, seen, startup, embedVars, index, startIndex, run, history>>

\* fs.writeFile(filepath, content, 'utf-8'): creates the file or replaces it
WriteFile(d, filename, content) ==
  [f \in DOMAIN d \cup {filename} |-> IF f = filename THEN content ELSE d[f]]

\* another step has its own fs.writeFile to the same path outstanding
WriteInFlightElsewhere(p, filename) ==
  \E q \in DOMAIN unit \ {p} :
     /\ unit[q].pc \in {"write", "close"}
     /\ FilenameOf(unit[q].links[unit[q].li].title) = filename

\* the record of a resolved fs.writeFile: whose article it wrote, whether it
\* replaced the file of another article, whether the path has seen two writes
\* outstanding at once
NoteWrite(lw, p, filename, link) ==
  [f \in DOMAIN lw \cup {filename} |->
     IF f = filename
     THEN [link |-> link,
           over |-> filename \in DOMAIN lw /\ lw[filename].link # link,
           raced |-> \/ WriteInFlightElsewhere(p, filename)
                     \/ (filename \in DOMAIN lw /\ lw[filename].raced)]
     ELSE lw[f]]

\* fs.writeFile at work: the file is opened (created or truncated) and the
\* content written; the promise resolves later, when the handle is closed, so
\* the writes of two steps to one path land in an order that need not be the
\* order in which their promises resolve
ArticleWriteLands(p) ==
  /\ unit[p].pc = "write"
  /\ LET u == unit[p]
         link == u.links[u.li]
     IN /\ disk' = WriteFile(disk, FilenameOf(link.title),
                             FileContent(link, ArticleBody(link.url.id)))
        /\ SetUnit(p, [u EXCEPT !.pc = "close"])
  /\ UNCHANGED <<workflow, wf, indexUrls, siteShift, chunkAt, results, agg,
                 dirExists, lastWrite, pure, seen, startup, embedVars, index, startIndex, run,
                 history>>

\* await fs.writeFile resolves: files.push(filename); processed++
ArticleWritten(p) ==
  /\ unit[p].pc = "close"
  /\ LET u == unit[p]
         link == u.links[u.li]
         filename == FilenameOf(link.title)
     IN /\ lastWrite' = NoteWrite(lastWrite, p, filename, link)
        /\ SetUnit(p, NextLink([u EXCEPT !.files = Append(@, filename),
                                          !.processed = @ + 1,
                                          !.written = Append(@, u.li)]))
  /\ UNCHANGED <<workflow, wf, indexUrls, siteShift, chunkAt, results, agg,
                 dirExists, disk, pure, seen, startup, embedVars, index, startIndex, run,
                 history>>

\* the rejected write is counted as processed
ArticleWriteErrorCounted(p) ==
  /\ unit[p].pc = "write"
  /\ SetUnit(p, NextLink([unit[p] EXCEPT !.processed = @ + 1]))
  /\ UNCHANGED <<workflow, wf, indexUrls, siteShift, chunkAt, results, agg,
                 diskVars, pure, seen, startup, embedVars, index, startIndex, run, history>>

\* await fs.writeFile rejects: caught, logged
ArticleWriteError(p) ==
  /\ unit[p].pc = "write"
  /\ SetUnit(p, NextLink(unit[p]))
  /\ UNCHANGED <<workflow, wf, indexUrls, siteShift, chunkAt, results, agg,
                 diskVars, pure, seen, startup, embedVars, index, startIndex, run, history>>

----------------------------------------------------------------------------
(* docsScraperWorkflow: prepareUrls, foreach (concurrency 2), aggregateResults *)

\* the items the foreach runs together: it takes the array in slices of
\* `concurrency` items, starts the step for every item of a slice at once and
\* awaits them all (Promise.all) before it goes on to the next slice
ChunkItemsUnbounded(at) ==
  { p \in 1..Len(indexUrls) : at <= p }

ChunkItems(at) ==
  { p \in 1..Len(indexUrls) : at <= p /\ p < at + Concurrency }

StartChunk(u, at) ==
  [p \in DOMAIN u |-> IF p \in ChunkItems(at)
                      THEN [u[p] EXCEPT !.pc = "fetchIndex"] ELSE u[p]]

\* the step's return value
UnitOutput(p) ==
  [indexUrl |-> indexUrls[p], processed |-> unit[p].processed,
   files |-> unit[p].files]

\* the outputs of the slice in the order in which the steps settled
ChunkOutputsAsSettled(at, n) ==
  LET inSlice == SelectSeq(settledOrder, LAMBDA p : at <= p /\ p < at + n)
  IN [k \in 1..Len(inSlice) |-> UnitOutput(inSlice[k])]

\* the outputs of the slice, in the order of the items (Promise.all keeps the
\* order of its argument, whatever the order of completion)
RECURSIVE ChunkOutputs(_, _)
ChunkOutputs(at, n) ==
  IF n = 0 THEN <<>>
  ELSE IF at > Len(indexUrls) THEN <<>>
       ELSE <<UnitOutput(at)>> \o ChunkOutputs(at + 1, n - 1)

\* prepareUrls.execute: return inputData.indexUrls
PrepareUrls ==
  /\ workflow = "docsScraper" /\ wf = "prepareUrls"
  /\ wf' = "foreach"
  /\ chunkAt' = 0
  /\ UNCHANGED <<workflow, indexUrls, siteShift, unit, results, settledOrder,
                 agg, diskVars, pure, seen, startup, embedVars, index, startIndex, run, history>>

\* the foreach is entered: the first slice is started; an empty array yields
\* an empty result array
ForeachEnter ==
  /\ workflow = "docsScraper" /\ wf = "foreach" /\ chunkAt = 0
  /\ chunkAt' = 1
  /\ IF Len(indexUrls) = 0
     THEN /\ wf' = "aggregateResults"
          /\ UNCHANGED unit
     ELSE /\ unit' = StartChunk(unit, 1)
          /\ UNCHANGED wf
  /\ UNCHANGED <<workflow, indexUrls, siteShift, results, settledOrder, agg,
                 diskVars, pure, seen, startup, embedVars, index, startIndex, run, history>>

\* the foreach goes on as soon as one step of the slice has returned
ForeachChunkDoneOnFirst ==
  /\ workflow = "docsScraper" /\ wf = "foreach" /\ chunkAt >= 1
  /\ \E p \in ChunkItems(chunkAt) : unit[p].pc = "done"
  /\ \A p \in ChunkItems(chunkAt) : unit[p].pc # "failed"
  /\ results' = results \o ChunkOutputs(chunkAt, Concurrency)
  /\ chunkAt' = chunkAt + Concurrency
  /\ IF chunkAt + Concurrency > Len(indexUrls)
     THEN /\ wf' = "aggregateResults"
          /\ UNCHANGED unit
     ELSE /\ unit' = StartChunk(unit, chunkAt + Concurrency)
          /\ UNCHANGED wf
  /\ UNCHANGED <<workflow, indexUrls, siteShift, settledOrder, agg, diskVars,
                 pure, seen, startup, embedVars, index, startIndex, run, history>>

\* every step of the slice has settled and none has failed: the outputs are
\* pushed in item order; the next slice is started, or the foreach ends
ForeachChunkDone ==
  /\ workflow = "docsScraper" /\ wf = "foreach" /\ chunkAt >= 1
  /\ ChunkItems(chunkAt) # {}
  /\ \A p \in ChunkItems(chunkAt) : unit[p].pc = "done"
  /\ results' = results \o ChunkOutputs(chunkAt, Concurrency)
  /\ chunkAt' = chunkAt + Concurrency
  /\ IF chunkAt + Concurrency > Len(indexUrls)
     THEN /\ wf' = "aggregateResults"
          /\ UNCHANGED unit
     ELSE /\ unit' = StartChunk(unit, chunkAt + Concurrency)
          /\ UNCHANGED wf
  /\ UNCHANGED <<workflow, indexUrls, siteShift, settledOrder, agg, diskVars,
                 pure, seen, startup, embedVars, index, startIndex, run, history>>

\* a step that threw counts as an empty page and the foreach goes on
ForeachChunkTolerant ==
  /\ workflow = "docsScraper" /\ wf = "foreach" /\ chunkAt >= 1
  /\ \A p \in ChunkItems(chunkAt) : Settled(p)
  /\ \E p \in ChunkItems(chunkAt) : unit[p].pc = "failed"
  /\ results' = results \o ChunkOutputs(chunkAt, Concurrency)
  /\ chunkAt' = chunkAt + Concurrency
  /\ IF chunkAt + Concurrency > Len(indexUrls)
     THEN /\ wf' = "aggregateResults"
          /\ UNCHANGED unit
     ELSE /\ unit' = StartChunk(unit, chunkAt + Concurrency)
          /\ UNCHANGED wf
  /\ UNCHANGED <<workflow, indexUrls, siteShift, settledOrder, agg, diskVars,
                 pure, seen, startup, embedVars, index, startIndex, run, history>>

\* every step of the slice has settled and one of them threw: the foreach
\* returns that failure and the workflow run ends as failed; no later slice is
\* started and no later step (aggregateResults, chunkAndEmbed) runs
ForeachChunkFailed ==
  /\ workflow = "docsScraper" /\ wf = "foreach" /\ chunkAt >= 1
  /\ \A p \in ChunkItems(chunkAt) : Settled(p)
  /\ \E p \in ChunkItems(chunkAt) : unit[p].pc = "failed"
  /\ wf' = "failed"
  /\ history' = Append(history, [run |-> run, workflow |-> workflow,
                                 status |-> "failed", threwAt |-> wf,
                                 result |-> NoResult, files |-> <<>>,
                                 recs |-> index.recs])
  /\ UNCHANGED <<workflow, scrapeVars, diskVars, pure, seen, startup, embedVars, index, startIndex, run>>

RECURSIVE ProcessedOf(_)
ProcessedOf(rs) ==
  IF rs = <<>> THEN <<>> ELSE <<Head(rs).processed>> \o ProcessedOf(Tail(rs))

RECURSIVE FilesOf(_)
FilesOf(rs) ==
  IF rs = <<>> THEN <<>> ELSE <<Head(rs).files>> \o FilesOf(Tail(rs))

\* totalProcessed counts the results, not their articles
AggregateResultsCountsPages ==
  /\ workflow = "docsScraper" /\ wf = "aggregateResults"
  /\ agg' = [totalProcessed |-> Len(results),
             allFiles |-> Flatten(FilesOf(results))]
  /\ wf' = "chunkAndEmbed"
  /\ ePc' = "start"
  /\ eFiles' = Flatten(FilesOf(results))
  /\ UNCHANGED <<workflow, indexUrls, siteShift, chunkAt, unit, results,
                 settledOrder, diskVars, pure, seen, startup, eI, eJ, batch, totalChunks,
                 totalEmbedded, eResult, index, startIndex, run, history>>
  /\ UNCHANGED storeOps

\* aggregateResults.execute: reduce and flatMap over the result array; its
\* output is the input of chunkAndEmbed
AggregateResults ==
  /\ workflow = "docsScraper" /\ wf = "aggregateResults"
  /\ agg' = [totalProcessed |-> SumSeq(ProcessedOf(results)),
             allFiles |-> Flatten(FilesOf(results))]
  /\ wf' = "chunkAndEmbed"
  /\ ePc' = "start"
  /\ eFiles' = Flatten(FilesOf(results))
  /\ UNCHANGED <<workflow, indexUrls, siteShift, chunkAt, unit, results,
                 settledOrder, diskVars, pure, seen, startup, eI, eJ, batch, totalChunks,
                 totalEmbedded, eResult, index, startIndex, run, history>>
  /\ UNCHANGED storeOps

----------------------------------------------------------------------------
(* chunkAndEmbed (the same code in both workflows) *)

\* the Markdown text of a body, for the `!markdown.trim()` test
RECURSIVE MarkdownText(_)
MarkdownText(body) ==
  IF body = <<>> THEN <<>>
  ELSE (IF Head(body).heading = "" THEN <<>> ELSE <<"#", Head(body).heading, "\n">>)
       \o Head(body).text \o <<"\n">> \o MarkdownText(Tail(body))

\* doc.chunk({strategy: 'markdown', headers: [...]}): one chunk per heading
\* section, the heading kept as metadata
RECURSIVE ChunkMarkdown(_)
ChunkMarkdown(body) ==
  IF body = <<>> THEN <<>>
  ELSE <<[text |-> Head(body).text, heading |-> Head(body).heading]>>
       \o ChunkMarkdown(Tail(body))

KeepChunkAlways(chunk) == TRUE

\* if (!text.trim()) continue
KeepChunk(chunk) == Trim(chunk.text) # <<>>

\* the entries one file adds to allChunkTexts / allChunkMetadata
FileChunks(filename, content) ==
  LET title == QuotedField(content.title)
      source == content.source
      kept == SelectSeq(ChunkMarkdown(content.body), KeepChunk)
  IN IF Trim(MarkdownText(content.body)) = <<>> THEN <<>>
     ELSE [k \in 1..Len(kept) |->
             [text |-> kept[k].text, source |-> source, title |-> title,
              filename |-> filename, heading |-> kept[k].heading]]

BatchFilesOneMore(files, i) == SubSeq(files, i, Min(i + BATCH_SIZE, Len(files)))

\* const batch = files.slice(i, i + BATCH_SIZE)
BatchFiles(files, i) == SubSeq(files, i, Min(i + BATCH_SIZE - 1, Len(files)))

\* ids = embeddings.map((_, idx) => `${allChunkMetadata[idx].filename}-${idx}`)
RecordId(meta, idx) == <<meta.filename, idx>>

\* the (vector, metadata, id) triples of one upsert call; the vector of a text
\* is determined by the text
BatchRecords(b, r, at) ==
  { [id |-> RecordId(b[k], k - 1), text |-> b[k].text, source |-> b[k].source,
     title |-> b[k].title, filename |-> b[k].filename, heading |-> b[k].heading,
     run |-> r, at |-> at] : k \in 1..Len(b) }

\* libsqlVector.upsert: a record replaces the stored record with the same id
Upsert(recs, new) ==
  { r \in recs : \A n \in new : n.id # r.id } \cup new

Finished(status, result, recs) ==
  Append(history, [run |-> run, workflow |-> workflow, status |-> status,
                   threwAt |-> IF status = "failed" THEN ePc ELSE "",
                   result |-> result, files |-> eFiles, recs |-> recs])

\* a call chunkAndEmbed has made and awaited: what was called, and with what
Op(op, arg) == [op |-> op, arg |-> arg]

\* an awaited call rejects: nothing catches it, execute throws and the run fails
Throw ==
  /\ ePc' = "threw"
  /\ wf' = "failed"
  /\ history' = Finished("failed", NoResult, index.recs)
  /\ UNCHANGED <<workflow, scrapeVars, diskVars, pure, seen, startup, eFiles, eI, eJ, batch,
                 totalChunks, totalEmbedded, eResult, index, startIndex, run>>
  /\ UNCHANGED storeOps

\* return { totalChunks, totalEmbedded }
Return(tc, te, recs) ==
  /\ ePc' = "returned"
  /\ eResult' = [totalChunks |-> tc, totalEmbedded |-> te]
  /\ wf' = "success"
  /\ history' = Finished("success", [totalChunks |-> tc, totalEmbedded |-> te], recs)

\* i += BATCH_SIZE and the loop test: the next batch's first readFile is
\* issued, or the loop ends and execute returns
NextBatch(tc, te, recs) ==
  /\ totalChunks' = tc
  /\ totalEmbedded' = te
  /\ IF eI + BATCH_SIZE > Len(eFiles)
     THEN /\ Return(tc, te, recs)
          /\ UNCHANGED <<eI, eJ, batch>>
     ELSE /\ ePc' = "readFile"
          /\ eI' = eI + BATCH_SIZE
          /\ eJ' = 1
          /\ batch' = <<>>
          /\ UNCHANGED <<eResult, wf, history>>

\* the load-time createIndex replaces an index that exists by an empty one
StartupCreateIndexRecreates ==
  /\ startup = "inFlight"
  /\ startup' = "settled"
  /\ index' = [exists |-> TRUE, dimension |-> EMBEDDING_DIMENSION,
               metric |-> "cosine", recs |-> {}]
  /\ UNCHANGED <<workflow, wf, scrapeVars, diskVars, pure, seen, embedVars, startIndex, run, history>>

\* the createIndex call of vector-store.ts, issued when the module is loaded
\* and never awaited, settles: a missing index is created empty, an existing
\* one is left as it is (the rejection, if any, is swallowed by .catch)
StartupCreateIndex ==
  /\ startup = "inFlight"
  /\ startup' = "settled"
  /\ index' = IF index.exists THEN index
               ELSE [exists |-> TRUE, dimension |-> EMBEDDING_DIMENSION,
                     metric |-> "cosine", recs |-> {}]
  /\ UNCHANGED <<workflow, wf, scrapeVars, diskVars, pure, seen, embedVars, startIndex,
                 run, history>>

\* execute goes on only when the file list holds a file
EmbedEnterNeedsFiles ==
  /\ wf = "chunkAndEmbed" /\ ePc = "start"
  /\ Len(eFiles) > 0
  /\ ePc' = "listIndexes"
  /\ UNCHANGED <<eI, eJ, batch, totalChunks, totalEmbedded, eResult, wf, history>>
  /\ UNCHANGED <<workflow, scrapeVars, diskVars, pure, seen, startup, eFiles, index,
                 startIndex, run>>
  /\ UNCHANGED storeOps

\* execute starts: an empty file list returns at once, before the index is
\* looked at; otherwise listIndexes is called
EmbedEnter ==
  /\ wf = "chunkAndEmbed" /\ ePc = "start"
  /\ IF Len(eFiles) = 0
     THEN /\ Return(0, 0, index.recs)
          /\ UNCHANGED <<eI, eJ, batch, totalChunks, totalEmbedded>>
     ELSE /\ ePc' = "listIndexes"
          /\ UNCHANGED <<eI, eJ, batch, totalChunks, totalEmbedded, eResult,
                         wf, history>>
  /\ UNCHANGED <<workflow, scrapeVars, diskVars, pure, seen, startup, eFiles, index, startIndex, run>>
  /\ UNCHANGED storeOps

\* whatever listIndexes reports, createIndex is called
ListIndexesDoneCreates ==
  /\ wf = "chunkAndEmbed" /\ ePc = "listIndexes"
  /\ ePc' = "createIndex"
  /\ UNCHANGED <<workflow, wf, scrapeVars, diskVars, pure, seen, startup, eFiles, eI, eJ, batch,
                 totalChunks, totalEmbedded, eResult, index, startIndex, run,
                 history>>
  /\ storeOps' = Append(storeOps, Op("listIndexes", <<index.exists>>))

\* await libsqlVector.listIndexes() resolves
ListIndexesDone ==
  /\ wf = "chunkAndEmbed" /\ ePc = "listIndexes"
  /\ ePc' = IF index.exists THEN "truncateIndex" ELSE "createIndex"
  /\ UNCHANGED <<workflow, wf, scrapeVars, diskVars, pure, seen, startup, eFiles, eI, eJ, batch,
                 totalChunks, totalEmbedded, eResult, index, startIndex, run,
                 history>>
  /\ storeOps' = Append(storeOps, Op("listIndexes", <<index.exists>>))

ListIndexesFails ==
  /\ wf = "chunkAndEmbed" /\ ePc = "listIndexes"
  /\ Throw

\* the totals are not zeroed
EnterLoopKeepTotals ==
  /\ ePc' = "readFile"
  /\ eI' = 1
  /\ eJ' = 1
  /\ batch' = <<>>
  /\ UNCHANGED <<workflow, wf, scrapeVars, diskVars, pure, seen, startup, eFiles, eResult, startIndex,
                 run, history, totalChunks, totalEmbedded>>

\* the index is ready: totals are zeroed and the first batch's first readFile
\* is issued
EnterLoop ==
  /\ totalChunks' = 0
  /\ totalEmbedded' = 0
  /\ ePc' = "readFile"
  /\ eI' = 1
  /\ eJ' = 1
  /\ batch' = <<>>
  /\ UNCHANGED <<workflow, wf, scrapeVars, diskVars, pure, seen, startup, eFiles, eResult, startIndex,
                 run, history>>

\* the truncation leaves the stored records in place
TruncateIndexKeeps ==
  /\ wf = "chunkAndEmbed" /\ ePc = "truncateIndex"
  /\ UNCHANGED index
  /\ EnterLoop
  /\ storeOps' = Append(storeOps, Op("truncateIndex", <<>>))

\* await libsqlVector.truncateIndex resolves
TruncateIndexDone ==
  /\ wf = "chunkAndEmbed" /\ ePc = "truncateIndex"
  /\ index' = [index EXCEPT !.recs = {}]
  /\ EnterLoop
  /\ storeOps' = Append(storeOps, Op("truncateIndex", <<>>))

TruncateIndexFails ==
  /\ wf = "chunkAndEmbed" /\ ePc = "truncateIndex"
  /\ Throw

\* await libsqlVector.createIndex resolves
CreateIndexDone ==
  /\ wf = "chunkAndEmbed" /\ ePc = "createIndex"
  /\ index' = [exists |-> TRUE, dimension |-> EMBEDDING_DIMENSION,
               metric |-> "cosine", recs |-> {}]
  /\ EnterLoop
  /\ storeOps' = Append(storeOps, Op("createIndex", <<EMBEDDING_DIMENSION, "cosine">>))

CreateIndexFails ==
  /\ wf = "chunkAndEmbed" /\ ePc = "createIndex"
  /\ Throw

\* await fs.readFile resolves for the file at position eJ of the batch: its
\* chunks are appended; after the last file of the batch, totalChunks is
\* raised and embedMany is called, or an empty batch is skipped
ReadFileDone ==
  /\ wf = "chunkAndEmbed" /\ ePc = "readFile"
  /\ LET files == BatchFiles(eFiles, eI)
         filename == files[eJ]
         b == batch \o FileChunks(filename, disk[filename])
     IN /\ filename \in DOMAIN disk
        /\ IF eJ < Len(files)
           THEN /\ batch' = b
                /\ eJ' = eJ + 1
                /\ storeOps' = Append(storeOps, Op("readFile", filename))
                /\ UNCHANGED <<ePc, eI, totalChunks, totalEmbedded, eResult,
                               wf, history>>
           ELSE IF Len(b) = 0
                THEN /\ NextBatch(totalChunks + Len(b), totalEmbedded, index.recs)
                     /\ storeOps' = Append(storeOps, Op("readFile", filename))
                ELSE /\ storeOps' = storeOps \o <<Op("readFile", filename),
                                                  Op("embedMany", <<eI>>)>>
                     /\ batch' = b
                     /\ totalChunks' = totalChunks + Len(b)
                     /\ ePc' = "embedMany"
                     /\ UNCHANGED <<eI, eJ, totalEmbedded, eResult, wf, history>>
  /\ UNCHANGED <<workflow, scrapeVars, diskVars, pure, seen, startup, eFiles, index, startIndex, run>>

ReadFileFails ==
  /\ wf = "chunkAndEmbed" /\ ePc = "readFile"
  /\ Throw

\* the upsert is issued and not awaited: the loop goes on to the next batch
EmbedManyDoneUpsertNotAwaited ==
  /\ wf = "chunkAndEmbed" /\ ePc = "embedMany"
  /\ storeOps' = storeOps \o <<Op("embedManyDone", <<eI>>), Op("upsert", <<eI>>)>>
  /\ NextBatch(totalChunks, totalEmbedded + Len(batch), index.recs)
  /\ UNCHANGED <<workflow, scrapeVars, diskVars, pure, seen, startup, eFiles, index,
                 startIndex, run>>

\* await embedMany resolves with one embedding per value
EmbedManyDone ==
  /\ wf = "chunkAndEmbed" /\ ePc = "embedMany"
  /\ ePc' = "upsert"
  /\ UNCHANGED <<workflow, wf, scrapeVars, diskVars, pure, seen, startup, eFiles, eI, eJ, batch,
                 totalChunks, totalEmbedded, eResult, index, startIndex, run,
                 history>>
  /\ storeOps' = storeOps \o <<Op("embedManyDone", <<eI>>), Op("upsert", <<eI>>)>>

EmbedManyFails ==
  /\ wf = "chunkAndEmbed" /\ ePc = "embedMany"
  /\ Throw

\* totalEmbedded counts the upsert calls
UpsertDoneCountsCalls ==
  /\ wf = "chunkAndEmbed" /\ ePc = "upsert"
  /\ LET recs == Upsert(index.recs, BatchRecords(batch, run, eI))
     IN /\ index' = [index EXCEPT !.recs = recs]
        /\ NextBatch(totalChunks, totalEmbedded + 1, recs)
  /\ UNCHANGED <<workflow, scrapeVars, diskVars, pure, seen, startup, eFiles, startIndex, run>>
  /\ storeOps' = Append(storeOps, Op("upsertDone", <<eI>>))

\* await libsqlVector.upsert resolves: totalEmbedded += embeddings.length
UpsertDone ==
  /\ wf = "chunkAndEmbed" /\ ePc = "upsert"
  /\ LET recs == Upsert(index.recs, BatchRecords(batch, run, eI))
     IN /\ index' = [index EXCEPT !.recs = recs]
        /\ NextBatch(totalChunks, totalEmbedded + Len(batch), recs)
  /\ UNCHANGED <<workflow, scrapeVars, diskVars, pure, seen, startup, eFiles, startIndex, run>>
  /\ storeOps' = Append(storeOps, Op("upsertDone", <<eI>>))

\* the rejection is caught per batch and the loop goes on
UpsertFailsCaught ==
  /\ wf = "chunkAndEmbed" /\ ePc = "upsert"
  /\ NextBatch(totalChunks, totalEmbedded, index.recs)
  /\ UNCHANGED <<workflow, scrapeVars, diskVars, pure, seen, startup, eFiles, index, startIndex, run>>
  /\ UNCHANGED storeOps

UpsertFails ==
  /\ wf = "chunkAndEmbed" /\ ePc = "upsert"
  /\ Throw

----------------------------------------------------------------------------
(* embedDocsWorkflow: discoverFiles, then chunkAndEmbed *)

Digits == <<"0", "1", "2", "3", "4", "5", "6", "7", "8", "9">>

\* the i-th Markdown file of a corpus placed in output/docs
FileName(i) == <<"d", Digits[(i \div 10) + 1], Digits[(i % 10) + 1], ".md">>

\* f.endsWith('.md')
EndsWithMd(name) == name # <<>> /\ Last(name) = ".md"

RankOf(name) ==
  IF Len(name) = 4 /\ name[1] = "d"
  THEN 10 * ((CHOOSE k \in 1..10 : Digits[k] = name[2]) - 1)
       + ((CHOOSE k \in 1..10 : Digits[k] = name[3]) - 1)
  ELSE 0

\* fs.readdir: the directory's entries, in name order
ReadDir(names) ==
  [k \in 1..Cardinality(names) |->
     CHOOSE x \in names :
       Cardinality({ y \in names : RankOf(y) < RankOf(x) }) = k - 1]

FailRun ==
  /\ wf' = "failed"
  /\ history' = Append(history, [run |-> run, workflow |-> workflow,
                                 status |-> "failed", threwAt |-> wf,
                                 result |-> NoResult, files |-> <<>>,
                                 recs |-> index.recs])
  /\ UNCHANGED <<workflow, scrapeVars, diskVars, pure, seen, startup, embedVars, index, startIndex, run>>

\* the missing directory is created before discoverFiles throws
DiscoverDirMissingCreates ==
  /\ workflow = "embedDocs" /\ wf = "discoverFiles"
  /\ ~dirExists
  /\ dirExists' = TRUE
  /\ wf' = "failed"
  /\ history' = Append(history, [run |-> run, workflow |-> workflow,
                                 status |-> "failed", threwAt |-> wf,
                                 result |-> NoResult, files |-> <<>>,
                                 recs |-> index.recs])
  /\ UNCHANGED <<workflow, scrapeVars, disk, lastWrite, pure, seen, startup,
                 embedVars, index, startIndex, run>>

\* fs.access(DOCS_DIR) rejects: discoverFiles throws
DiscoverDirMissing ==
  /\ workflow = "embedDocs" /\ wf = "discoverFiles"
  /\ ~dirExists
  /\ FailRun

\* no entry ends with .md: discoverFiles returns the empty list
DiscoverReturnsEmpty ==
  /\ workflow = "embedDocs" /\ wf = "discoverFiles"
  /\ dirExists
  /\ SelectSeq(ReadDir(DOMAIN disk), EndsWithMd) = <<>>
  /\ eFiles' = <<>>
  /\ wf' = "chunkAndEmbed"
  /\ ePc' = "start"
  /\ UNCHANGED <<workflow, scrapeVars, diskVars, pure, seen, startup, eI, eJ, batch, totalChunks,
                 totalEmbedded, eResult, index, startIndex, run, history>>
  /\ UNCHANGED storeOps

\* no entry ends with .md: discoverFiles throws
DiscoverNoMarkdown ==
  /\ workflow = "embedDocs" /\ wf = "discoverFiles"
  /\ dirExists
  /\ SelectSeq(ReadDir(DOMAIN disk), EndsWithMd) = <<>>
  /\ FailRun

\* discoverFiles returns the .md entries; they are the input of chunkAndEmbed
DiscoverFiles ==
  /\ workflow = "embedDocs" /\ wf = "discoverFiles"
  /\ dirExists
  /\ SelectSeq(ReadDir(DOMAIN disk), EndsWithMd) # <<>>
  /\ eFiles' = SelectSeq(ReadDir(DOMAIN disk), EndsWithMd)
  /\ wf' = "chunkAndEmbed"
  /\ ePc' = "start"
  /\ UNCHANGED <<workflow, scrapeVars, diskVars, pure, seen, startup, eI, eJ, batch, totalChunks,
                 totalEmbedded, eResult, index, startIndex, run, history>>
  /\ UNCHANGED storeOps

\* the workflow is run again (Mastra Studio, API) after the previous run ended
RunAgain ==
  /\ workflow = "embedDocs" /\ wf \in {"success", "failed"}
  /\ run < MaxRuns
  /\ run' = run + 1
  /\ wf' = "discoverFiles"
  /\ ePc' = "idle"
  /\ eFiles' = <<>>
  /\ eI' = 0
  /\ eJ' = 0
  /\ batch' = <<>>
  /\ eResult' = NoResult
  /\ startIndex' = index
  /\ UNCHANGED <<workflow, scrapeVars, diskVars, pure, seen, startup, totalChunks,
                 totalEmbedded, index, history>>
  /\ storeOps' = <<>>

----------------------------------------------------------------------------
(* Initial states *)

\* a record left in the index by an earlier process
OldRecord ==
  [id |-> <<FileName(1), 0>>, text |-> <<"o">>, source |-> [host |-> SiteHost, id |-> 0],
   title |-> <<"O">>, filename |-> FileName(1), heading |-> "", run |-> 0, at |-> 1]

StaleRecord ==
  [id |-> <<<<"o", ".md">>, 7>>, text |-> <<"o">>, source |-> [host |-> SiteHost, id |-> 0],
   title |-> <<"O">>, filename |-> <<"o", ".md">>, heading |-> "", run |-> 0, at |-> 1]

NoIndex == [exists |-> FALSE, dimension |-> 0, metric |-> "", recs |-> {}]
IndexWith(recs) ==
  [exists |-> TRUE, dimension |-> EMBEDDING_DIMENSION, metric |-> "cosine",
   recs |-> recs]

\* mastra.db at the start of a run: no index yet, the empty index created at
\* module load (vector-store.ts), or the index an earlier run filled
InitialIndexes == {NoIndex, IndexWith({}), IndexWith({OldRecord, StaleRecord})}

EmbedIdle ==
  /\ ePc = "idle"
  /\ eFiles = <<>>
  /\ eI = 0
  /\ eJ = 0
  /\ batch = <<>>
  /\ totalChunks = 0
  /\ totalEmbedded = 0
  /\ eResult = NoResult
  /\ storeOps = <<>>

\* run.start({inputData: {indexUrls}}) of docsScraperWorkflow
Init ==
  /\ workflow = "docsScraper"
  /\ wf = "prepareUrls"
  /\ \E k \in 0..MaxPages : 
       /\ indexUrls = [p \in 1..k |-> p]
       /\ unit = [p \in 1..k |-> Pending]
  /\ siteShift \in 0..(ListingKinds - 1)
  /\ chunkAt = 0
  /\ results = <<>>
  /\ settledOrder = <<>>
  /\ agg = NoResult
  /\ dirExists = FALSE
  /\ disk = <<>>
  /\ lastWrite = <<>>
  /\ EmbedIdle
  /\ index \in InitialIndexes
  /\ startIndex = index
  /\ run = 1
  /\ history = <<>>
  /\ pure = NoPure
  /\ seen = NoQuery
  /\ startup = "inFlight"

\* run.start of docsScraperWorkflow over one index page of the long site
InitLongSite ==
  /\ workflow = "docsScraper"
  /\ wf = "prepareUrls"
  /\ indexUrls = <<1>>
  /\ unit = <<Pending>>
  /\ siteShift = LongSite
  /\ chunkAt = 0
  /\ results = <<>>
  /\ settledOrder = <<>>
  /\ agg = NoResult
  /\ dirExists = FALSE
  /\ disk = <<>>
  /\ lastWrite = <<>>
  /\ EmbedIdle
  /\ index \in InitialIndexes
  /\ startIndex = index
  /\ run = 1
  /\ history = <<>>
  /\ pure = NoPure
  /\ seen = NoQuery
  /\ startup = "inFlight"

BodyKinds == {1, 3, 4}
Patterns == UNION { [1..l -> BodyKinds] : l \in 1..MaxPattern }

CorpusTitle(i) == IF i % 2 = 0 THEN <<"A">> ELSE <<"B", "\"", "c">>

CorpusFile(pat, i) ==
  FileContent([title |-> CorpusTitle(i), url |-> [host |-> SiteHost, id |-> i]],
              ArticleBody(pat[((i - 1) % Len(pat)) + 1]))

Corpus(pat, n) ==
  [name \in { FileName(i) : i \in 1..n } |->
     CorpusFile(pat, CHOOSE i \in 1..n : FileName(i) = name)]

\* a directory entry that is no Markdown file
OtherFile == <<"n", ".txt">>

\* run.start({inputData: {}}) of embedDocsWorkflow over a corpus on disk
InitEmbed ==
  /\ workflow = "embedDocs"
  /\ wf = "discoverFiles"
  /\ indexUrls = <<>>
  /\ unit = <<>>
  /\ siteShift = 0
  /\ chunkAt = 0
  /\ results = <<>>
  /\ settledOrder = <<>>
  /\ agg = NoResult
  /\ \/ /\ dirExists = FALSE
        /\ disk = <<>>
     \/ /\ dirExists = TRUE
        /\ \E n \in 0..MaxFiles, pat \in Patterns : disk = Corpus(pat, n)
     \/ /\ dirExists = TRUE
        /\ disk = [name \in {OtherFile} |-> CorpusFile(<<1>>, 1)]
  /\ lastWrite = <<>>
  /\ EmbedIdle
  /\ index \in InitialIndexes
  /\ startIndex = index
  /\ run = 1
  /\ history = <<>>
  /\ pure = NoPure
  /\ seen = NoQuery
  /\ startup = "inFlight"

----------------------------------------------------------------------------
(* Specifications *)

UnitStep(p) ==
  \/ IndexFetchFails(p)
  \/ IndexFetched(p)
  \/ DelayElapsed(p)
  \/ ArticleBadStatus(p)
  \/ ArticleNetworkError(p)
  \/ ArticleNoContent(p)
  \/ ArticleEmptyContent(p)
  \/ ArticleConverted(p)
  \/ ArticleWriteLands(p)
  \/ ArticleWritten(p)
  \/ ArticleWriteError(p)

EmbedStep ==
  \/ EmbedEnter
  \/ ListIndexesDone
  \/ ListIndexesFails
  \/ TruncateIndexDone
  \/ TruncateIndexFails
  \/ CreateIndexDone
  \/ CreateIndexFails
  \/ ReadFileDone
  \/ ReadFileFails
  \/ EmbedManyDone
  \/ EmbedManyFails
  \/ UpsertDone
  \/ UpsertFails

Next ==
  \/ PrepareUrls
  \/ ForeachEnter
  \/ \E p \in DOMAIN unit : UnitStep(p)
  \/ ForeachChunkDone
  \/ ForeachChunkFailed
  \/ AggregateResults
  \/ EmbedStep
  \/ StartupCreateIndex

Spec == Init /\ [][Next]_vars

SpecLongSite == InitLongSite /\ [][Next]_vars

NextEmbed ==
  \/ DiscoverDirMissing
  \/ DiscoverNoMarkdown
  \/ DiscoverFiles
  \/ EmbedStep
  \/ RunAgain
  \/ StartupCreateIndex

SpecEmbed == InitEmbed /\ [][NextEmbed]_vars

----------------------------------------------------------------------------
(* medevioKnowledgeTool: a vector query against the index, at any time *)

\* what a query finds: the index missing (the query is rejected), or the
\* records the index holds at that moment; with it, where the embed run and
\* the load-time createIndex stood when the query reached the store
Observation ==
  [found |-> index.exists,
   recs |-> IF index.exists THEN index.recs ELSE {},
   run |-> run, wf |-> wf, ePc |-> ePc, eI |-> eI, startup |-> startup]

QueryIndex ==
  /\ seen' = Observation
  /\ UNCHANGED <<workflow, wf, scrapeVars, diskVars, embedVars, index,
                 startIndex, run, history, pure, startup>>

\* the process serves queries while embedDocsWorkflow runs over a corpus of
\* two batches (or fails in discoverFiles)
InitReader ==
  /\ InitEmbed
  /\ (dirExists /\ OtherFile \notin DOMAIN disk) =>
       disk = Corpus(<<1>>, BATCH_SIZE + 1)

NextReader ==
  \/ NextEmbed
  \/ QueryIndex

SpecReader == InitReader /\ [][NextReader]_vars

----------------------------------------------------------------------------
(* Runs of either workflow in which every call that is awaited settles *)

\* a scrape+embed run over the pages of at most two slices, or re-embed runs
\* over a corpus of two batches
InitLive ==
  \/ Init /\ Len(indexUrls) <= Concurrency + 1 /\ siteShift = 0
  \/ InitReader

NextLive ==
  \/ Next
  \/ NextEmbed

\* every promise the code awaits settles and the event loop runs what waits
\* for it: a step that can be taken is taken
SpecLive == InitLive /\ [][NextLive]_vars /\ WF_vars(NextLive)

----------------------------------------------------------------------------
(* The pure functions, applied to inputs drawn from bounded sets *)

\* no workflow runs
Quiescent ==
  /\ workflow = "none"
  /\ wf = "idle"
  /\ indexUrls = <<>>
  /\ unit = <<>>
  /\ siteShift = 0
  /\ chunkAt = 0
  /\ results = <<>>
  /\ settledOrder = <<>>
  /\ agg = NoResult
  /\ dirExists = FALSE
  /\ disk = <<>>
  /\ lastWrite = <<>>
  /\ EmbedIdle
  /\ index = NoIndex
  /\ startIndex = NoIndex
  /\ run = 0
  /\ history = <<>>
  /\ seen = NoQuery
  /\ startup = "settled"

workflowVars == <<workflow, wf, scrapeVars, diskVars, embedVars, index,
                  startIndex, run, history, seen, startup>>

\* the strings of at most n characters over the alphabet
RECURSIVE StringsUpTo(_, _)
StringsUpTo(alphabet, n) ==
  IF n = 0 THEN {<<>>}
  ELSE LET shorter == StringsUpTo(alphabet, n - 1)
       IN shorter \cup { Append(t, c) : t \in shorter, c \in alphabet }

Repeat(c, n) == [k \in 1..n |-> c]

\* characters of article titles: letters of either case, a digit, an accented
\* letter, a hyphen, a blank, punctuation
TitleChars == {"a", "B", "1", "E'", "-", " ", "!"}

\* short titles, and titles whose slug is about as long as the limit
Titles ==
  LET short == StringsUpTo(TitleChars, MaxTitleLen)
  IN short \cup { Repeat("a", n) \o t :
                    n \in (SlugLimit - MaxTitleLen)..(SlugLimit + MaxOver),
                    t \in short }

InitSanitize ==
  /\ Quiescent
  /\ \E t \in Titles : pure = [fn |-> "sanitizeFilename", pc |-> "call",
                                title |-> t, slug |-> <<>>, again |-> <<>>]

\* sanitizeFilename(link.title) returns
SanitizeReturns ==
  /\ pure.fn = "sanitizeFilename" /\ pure.pc = "call"
  /\ pure' = [pure EXCEPT !.pc = "returned",
                          !.slug = sanitizeFilename(pure.title)]
  /\ UNCHANGED workflowVars

\* the slug is used as a title: sanitizeFilename(slug) returns
SanitizeSlugReturns ==
  /\ pure.fn = "sanitizeFilename" /\ pure.pc = "returned"
  /\ pure' = [pure EXCEPT !.pc = "again",
                          !.again = sanitizeFilename(pure.slug)]
  /\ UNCHANGED workflowVars

NextSanitize ==
  \/ SanitizeReturns
  \/ SanitizeSlugReturns

SpecSanitize == InitSanitize /\ [][NextSanitize]_vars

\* frontmatter + markdown, character by character; "---", "title: ",
\* "source: " and "scraped_at: " stand for these runs of characters and "T"
\* for the timestamp
RenderFile(link, markdown) ==
  <<"---", "\n", "title: ", "\"">> \o EscapeQuotes(link.title)
  \o <<"\"", "\n", "source: ", "\"">> \o link.url
  \o <<"\"", "\n", "scraped_at: ", "\"", "T", "\"", "\n", "---", "\n", "\n">>
  \o markdown

MatchAt(s, k, pat) ==
  /\ k >= 1
  /\ k + Len(pat) - 1 <= Len(s)
  /\ SubSeq(s, k, k + Len(pat) - 1) = pat

\* frontmatter.match(/title:\s*"(.+?)"/) and the like: the first place where
\* the key and an opening quote are followed, on the same line, by at least
\* one character and a quote; the group, or '' without a match
FieldOf(fm, key) ==
  LET line(k) == LET after == SubSeq(fm, k + 2, Len(fm))
                     ends == { j \in 1..Len(after) : after[j] = "\n" }
                 IN IF ends = {} THEN after
                    ELSE SubSeq(after, 1, (CHOOSE j \in ends :
                                             \A i \in ends : j <= i) - 1)
      hits == { k \in 1..Len(fm) :
                  /\ MatchAt(fm, k, <<key, "\"">>)
                  /\ \E j \in 2..Len(line(k)) : line(k)[j] = "\"" }
  IN IF hits = {} THEN <<>>
     ELSE QuotedField(line(CHOOSE k \in hits : \A i \in hits : k <= i))

\* content.match(/^---\n([\s\S]*?)\n---\n\n?([\s\S]*)$/) and what is taken
\* from the match; without a match the whole content is the markdown
ParseFile(content) ==
  LET ends == { k \in 3..Len(content) : MatchAt(content, k, <<"\n", "---", "\n">>) }
  IN IF MatchAt(content, 1, <<"---", "\n">>) /\ ends # {}
     THEN LET k == CHOOSE e \in ends : \A i \in ends : e <= i
              fm == SubSeq(content, 3, k - 1)
              rest == SubSeq(content, k + 3, Len(content))
          IN [title |-> FieldOf(fm, "title: "),
              source |-> FieldOf(fm, "source: "),
              markdown |-> IF rest # <<>> /\ Head(rest) = "\n"
                           THEN Tail(rest) ELSE rest]
     ELSE [title |-> <<>>, source |-> <<>>, markdown |-> content]

\* titles as the link extraction leaves them: not blank, trimmed
LinkTitles ==
  { t \in StringsUpTo({"B", "c", "\"", "\\", " "}, MaxTitleLen) :
      t # <<>> /\ Trim(t) = t }

LinkUrls == { <<"h", "/", "1">>, <<"h", "/", "2", "?", "q">> }

\* what the converter returns: nothing, plain text, headed sections, a rule
\* between two paragraphs, a quotation
Markdowns ==
  { <<>>, <<"x">>, <<"#", "x", "\n", "\n", "y">>,
    <<"x", "\n", "---", "\n", "y">>, <<"\"", "x", "\"">> }

InitFrontmatter ==
  /\ Quiescent
  /\ \E t \in LinkTitles, u \in LinkUrls, m \in Markdowns :
       pure = [fn |-> "frontmatter", pc |-> "call",
               link |-> [url |-> u, title |-> t], markdown |-> m,
               content |-> <<>>, parsed |-> NoResult]

\* the scraper writes the article: frontmatter + markdown
FileRendered ==
  /\ pure.fn = "frontmatter" /\ pure.pc = "call"
  /\ pure' = [pure EXCEPT !.pc = "written",
                          !.content = RenderFile(pure.link, pure.markdown)]
  /\ UNCHANGED workflowVars

\* the embedder reads the file back and takes title, source and markdown
FileParsed ==
  /\ pure.fn = "frontmatter" /\ pure.pc = "written"
  /\ pure' = [pure EXCEPT !.pc = "parsed", !.parsed = ParseFile(pure.content)]
  /\ UNCHANGED workflowVars

NextFrontmatter ==
  \/ FileRendered
  \/ FileParsed

SpecFrontmatter == InitFrontmatter /\ [][NextFrontmatter]_vars

\* a.row anchors an index page can carry: article links with a relative and
\* with an absolute href, the second one padded with blanks, a second anchor
\* for the first article, and anchors without href, with a blank title, with
\* the href of a folder
PageAnchors ==
  { Anchor(RelHref(TRUE, 1), <<"A">>),
    Anchor(AbsHref(TRUE, 2), <<" ", "B", " ">>),
    Anchor(AbsHref(TRUE, 1), <<"c">>),
    Anchor(NoHref, <<"A">>),
    Anchor(RelHref(TRUE, 3), <<" ">>),
    Anchor(AbsHref(FALSE, 4), <<"B">>) }

InitLinks ==
  /\ Quiescent
  /\ \E l \in 0..MaxAnchors : \E page \in [1..l -> PageAnchors] :
       pure = [fn |-> "extractLinks", pc |-> "call", anchors |-> page,
               baseUrl |-> SiteHost, links |-> <<>>]

\* $index('a.row').each(...) has gone through the anchors
LinksExtracted ==
  /\ pure.fn = "extractLinks" /\ pure.pc = "call"
  /\ pure' = [pure EXCEPT !.pc = "returned",
                          !.links = ExtractLinks(pure.anchors, pure.baseUrl)]
  /\ UNCHANGED workflowVars

NextLinks == LinksExtracted

SpecLinks == InitLinks /\ [][NextLinks]_vars

----------------------------------------------------------------------------
(* Properties *)

InFlightUnits == { p \in DOMAIN unit : InFlight(p) }

\* C1: in multi-page mode at most 2 index-page units (link extraction plus
\* all article conversions of one index URL) are in flight at any time,
\* whatever the number of index URLs and the timing of the units
C1_AtMostTwoUnitsInFlight == Cardinality(InFlightUnits) <= 2

\* two units are in flight while a further index URL waits for its turn
C1_Witness ==
  /\ Cardinality(InFlightUnits) = 2
  /\ \E p \in DOMAIN unit : unit[p].pc = "pending"
  /\ \E p \in InFlightUnits : unit[p].pc # "fetchIndex"

UnitFiles == [p \in DOMAIN unit |-> unit[p].files]
UnitProcessed == [p \in DOMAIN unit |-> unit[p].processed]

\* C2: whatever the order in which the concurrent units complete, allFiles is
\* the concatenation of the pages' files in the input order of the index URLs
\* and totalProcessed is the sum of the pages' processed counts
C2_AggregateInInputOrder ==
  agg # NoResult =>
    /\ agg.allFiles = Flatten(UnitFiles)
    /\ agg.totalProcessed = SumSeq(UnitProcessed)

\* the second index URL completed before the first, both wrote files
C2_Witness ==
  /\ agg # NoResult
  /\ Len(settledOrder) >= 2
  /\ settledOrder[1] = 2 /\ settledOrder[2] = 1
  /\ unit[1].files # <<>> /\ unit[2].files # <<>>
  /\ unit[1].files # unit[2].files

FetchCount(log) == Len(SelectSeq(log, LAMBDA e : e = "fetch"))
PauseCount(log) == Len(SelectSeq(log, LAMBDA e : e = "pause"))

\* C3: inside one index-page unit the failure of an article (bad status,
\* network error, missing or empty content, write error) never aborts the
\* page: every link is attempted, processed is the number of articles written
\* and files lists exactly the written articles, in link order
C3_ArticleFailureNeverAbortsPage ==
  \A p \in DOMAIN unit :
    LET u == unit[p] IN
    /\ u.pc = "failed" => u.log = <<>>
    /\ u.pc = "done" =>
         /\ FetchCount(u.log) = Len(u.links)
         /\ u.processed = Len(u.written)
         /\ u.files = [k \in 1..Len(u.written) |-> FilenameOf(u.links[u.written[k]].title)]
         /\ \A k \in 1..Len(u.written) :
              /\ u.written[k] \in 1..Len(u.links)
              /\ k > 1 => u.written[k - 1] < u.written[k]

\* a page of three links whose second article failed: the third was still
\* written and the unit returned processed 2
C3_Witness ==
  \E p \in DOMAIN unit :
    /\ unit[p].pc = "done"
    /\ Len(unit[p].links) = 3
    /\ unit[p].written = <<1, 3>>
    /\ unit[p].processed = 2

\* C4 as stated: when the fetch of one index page fails, the other index
\* pages are still processed and the run goes on to aggregation
C4_IndexFailureConfined ==
  (wf \in {"success", "failed"} /\ \E p \in DOMAIN unit : unit[p].pc = "failed") =>
    /\ agg # NoResult
    /\ \A q \in DOMAIN unit : unit[q].pc # "pending"

\* C4 amended: a unit whose index page cannot be fetched throws; the units
\* started together with it still run to their end, but the run then fails:
\* no later index URL is started, nothing is aggregated and nothing embedded
C4_IndexFailureFailsRun ==
  (\E p \in DOMAIN unit : unit[p].pc = "failed") =>
    /\ wf \in {"foreach", "failed"}
    /\ agg = NoResult
    /\ ePc = "idle"
    /\ \A q \in DOMAIN unit : q >= chunkAt + 2 => unit[q].pc = "pending"
    /\ wf = "failed" =>
         /\ \A q \in DOMAIN unit : (chunkAt <= q /\ q < chunkAt + 2) => Settled(q)
         /\ Last(history).status = "failed"
         /\ Last(history).result = NoResult

\* the run failed on one index page while its neighbour wrote articles and a
\* later index URL was never started
C4_Witness ==
  /\ wf = "failed"
  /\ \E p, q, r \in DOMAIN unit :
       /\ unit[p].pc = "failed"
       /\ unit[q].pc = "done" /\ unit[q].processed > 0
       /\ unit[r].pc = "pending"

Stored(recs) ==
  { [id |-> r.id, text |-> r.text, source |-> r.source, title |-> r.title,
     filename |-> r.filename, heading |-> r.heading] : r \in recs }

\* C6: two embed runs in succession over the same corpus return the same
\* totalEmbedded and leave the same index contents; no record of the first
\* run is left beside those of the second
C6_ReembedIsIdempotent ==
  \A k \in 1..(Len(history) - 1) :
    (history[k].status = "success" /\ history[k + 1].status = "success") =>
      /\ history[k + 1].result.totalEmbedded = history[k].result.totalEmbedded
      /\ Stored(history[k + 1].recs) = Stored(history[k].recs)
      /\ \A r \in history[k + 1].recs : r.run = history[k + 1].run
      /\ Cardinality(history[k + 1].recs) = Cardinality(Stored(history[k + 1].recs))

\* two completed runs over a corpus of more than one batch
C6_Witness ==
  /\ Len(history) = 2
  /\ history[1].status = "success" /\ history[2].status = "success"
  /\ history[2].result.totalEmbedded > 0
  /\ Len(history[2].files) > 10
  /\ startIndex.recs # {}

\* the chunks of the batch that starts at file position a
RECURSIVE ChunksOfFiles(_)
ChunksOfFiles(files) ==
  IF files = <<>> THEN <<>>
  ELSE FileChunks(Head(files), disk[Head(files)]) \o ChunksOfFiles(Tail(files))

BatchStarts == { a \in 1..Len(eFiles) : (a - 1) % 10 = 0 }

\* C7: when the embedding call or the upsert of a batch fails the run is
\* aborted: no totals are returned, no later batch is attempted and the index
\* is left truncated, holding exactly the records of the batches before it
C7_FailureAbortsRun ==
  (wf = "failed" /\ ePc = "threw" /\ Last(history).threwAt \in {"embedMany", "upsert"}) =>
    /\ eResult = NoResult
    /\ Last(history).result = NoResult
    /\ index.recs = Last(history).recs
    /\ \A r \in index.recs : r.run = run /\ r.at < eI
    /\ index.recs =
         UNION { BatchRecords(ChunksOfFiles(SubSeq(eFiles, a, Min(a + 9, Len(eFiles)))),
                              run, a) : a \in { b \in BatchStarts : b < eI } }

\* the upsert of the second batch failed after the first batch was stored
C7_Witness ==
  /\ wf = "failed" /\ ePc = "threw"
  /\ Last(history).threwAt = "upsert"
  /\ eI > 1
  /\ index.recs # {}
  /\ startIndex.recs # {}

\* C8 as stated: inside one index page a pause precedes every article fetch
\* but the first, whatever the outcome of the earlier fetches, so that n
\* fetches are separated by n - 1 pauses
C8_PauseBetweenFetches ==
  \A p \in DOMAIN unit :
    LET log == unit[p].log IN
    /\ \A k \in 2..Len(log) : log[k] = "fetch" => log[k - 1] = "pause"
    /\ (unit[p].pc = "done" /\ Len(unit[p].links) >= 2) =>
         PauseCount(log) = Len(unit[p].links) - 1

BatchFilenames == { batch[k].filename : k \in 1..Len(batch) }

\* C9 as stated: every embedding request and every upsert carries at most 10
\* chunks
C9_AtMostTenChunks ==
  ePc \in {"embedMany", "upsert"} => Len(batch) <= 10

\* C9 amended: every embedding request and every upsert carries the chunks of
\* at most 10 files of the file list, those of the current batch
C9_AtMostTenFiles ==
  ePc \in {"embedMany", "upsert"} =>
    /\ Cardinality(BatchFilenames) <= 10
    /\ \A f \in BatchFilenames :
         \E j \in 0..9 : eI + j <= Len(eFiles) /\ eFiles[eI + j] = f

\* an upsert carrying more than 10 chunks, taken from 10 files
C9_Witness ==
  /\ ePc = "upsert"
  /\ Cardinality(BatchFilenames) = 10
  /\ Len(batch) > 10

\* C10: no empty or whitespace-only chunk text reaches the embedding provider
\* or the index, and the provider is never called with an empty list
C10_NoBlankChunkEmbedded ==
  /\ ePc \in {"embedMany", "upsert"} =>
       /\ batch # <<>>
       /\ \A k \in 1..Len(batch) : Trim(batch[k].text) # <<>>
  /\ \A r \in index.recs : r.run # 0 => Trim(r.text) # <<>>

HasBlankSection(body) ==
  \E k \in 1..Len(body) : Trim(body[k].text) = <<>>

\* an embedding call for a batch one of whose files has a heading without
\* body text, and a batch left without any chunk that was skipped
C10_Witness ==
  /\ ePc = "embedMany"
  /\ \E j \in 0..9 :
       /\ eI + j <= Len(eFiles)
       /\ HasBlankSection(disk[eFiles[eI + j]].body)
  /\ \E j \in 0..9 :
       /\ eI + j <= Len(eFiles)
       /\ disk[eFiles[eI + j]].body = <<>>

\* the chunks the chunker returns for the files, blank ones included; a file
\* whose markdown is blank is never given to the chunker
RECURSIVE ChunksSeen(_)
ChunksSeen(files) ==
  IF files = <<>> THEN 0
  ELSE (IF Trim(MarkdownText(disk[Head(files)].body)) = <<>> THEN 0
        ELSE Len(ChunkMarkdown(disk[Head(files)].body)))
       + ChunksSeen(Tail(files))

ChunksKept(files) == Len(ChunksOfFiles(files))

\* C11 as stated: of a completed run, totalChunks is the number of all chunks
\* the chunker returned, the blank ones that were discarded included,
\* totalEmbedded the number embedded and upserted, and their difference the
\* number of discarded chunks
C11_TotalChunksCountsDiscarded ==
  \A k \in 1..Len(history) :
    history[k].status = "success" =>
      /\ history[k].result.totalChunks = ChunksSeen(history[k].files)
      /\ history[k].result.totalEmbedded = ChunksKept(history[k].files)
      /\ history[k].result.totalChunks - history[k].result.totalEmbedded
           = ChunksSeen(history[k].files) - ChunksKept(history[k].files)

\* C11: of a completed run, totalChunks is the number of non-blank chunks
\* collected for embedding (a discarded blank chunk is not counted) and
\* totalEmbedded the number of records embedded and upserted; the two are
\* equal, whatever number of blank chunks was discarded
C11_TotalsCountKeptChunks ==
  \A k \in 1..Len(history) :
    history[k].status = "success" =>
      /\ history[k].result.totalChunks = ChunksKept(history[k].files)
      /\ history[k].result.totalEmbedded = ChunksKept(history[k].files)
      /\ history[k].result.totalEmbedded
           = Cardinality({ r \in history[k].recs : r.run = history[k].run })

\* a completed run over two batches that discarded blank chunks
C11_Witness ==
  /\ history # <<>>
  /\ Last(history).status = "success"
  /\ Len(Last(history).files) > 10
  /\ ChunksSeen(Last(history).files) > ChunksKept(Last(history).files)
  /\ Last(history).result.totalEmbedded > 10

\* the index page at input position p was fetched and has no valid link
ZeroLinkPage(p) ==
  /\ unit[p].indexOk
  /\ ExtractLinks(AnchorsOf(indexUrls[p], siteShift), BaseUrlOf(indexUrls[p])) = <<>>

\* C12: an index page without a valid article link makes its unit return
\* processed 0 and no files without throwing: no article is fetched and no
\* file written for it, output/docs is not even created by it, and a run
\* fails in the foreach only on a page whose index fetch failed
C12_ZeroLinkPageIsEmptyResult ==
  /\ \A p \in DOMAIN unit :
       ZeroLinkPage(p) =>
         /\ unit[p].pc = "done"
         /\ UnitOutput(p) = [indexUrl |-> indexUrls[p], processed |-> 0,
                             files |-> <<>>]
         /\ unit[p].log = <<>>
         /\ unit[p].written = <<>>
  /\ (\A p \in DOMAIN unit : unit[p].indexOk => ZeroLinkPage(p)) =>
       (~dirExists /\ disk = <<>>)
  /\ (\E p \in DOMAIN unit : unit[p].pc = "failed") =>
       (\E p \in DOMAIN unit : unit[p].pc = "failed" /\ ~unit[p].indexOk)
  /\ \A k \in 1..Len(results) :
       ZeroLinkPage(k) => (results[k].processed = 0 /\ results[k].files = <<>>)

\* a run that went past a page without links: the page counted nothing, its
\* neighbour wrote its articles and the aggregate holds them
C12_Witness ==
  /\ agg # NoResult
  /\ agg.totalProcessed > 0
  /\ \E p, q \in DOMAIN unit :
       /\ ZeroLinkPage(p)
       /\ unit[q].pc = "done" /\ unit[q].processed > 0
       /\ (p + 1) \div 2 = (q + 1) \div 2

\* C14 as stated: two titles with the same slug go to the same filename, and
\* whether the writes follow one another or are outstanding at once in two
\* parallel units, once no write to the path is outstanding the one file of
\* that name holds the content of the write that finished last
C14_LastFinishedWriteWins ==
  /\ \A p \in DOMAIN unit : \A k \in 1..Len(unit[p].files) :
       /\ unit[p].files[k] = FilenameOf(unit[p].links[unit[p].written[k]].title)
       /\ unit[p].files[k] \in DOMAIN disk
  /\ \A f \in DOMAIN lastWrite :
       (\A q \in DOMAIN unit :
          (unit[q].pc \in {"write", "close"}) =>
             FilenameOf(unit[q].links[unit[q].li].title) # f)
       => disk[f] = FileContent(lastWrite[f].link,
                                ArticleBody(lastWrite[f].link.url.id))

\* writes to one path that followed one another in a single unit leave the
\* content of the last of them
C14_SequentialLastWriteWins ==
  \A f \in DOMAIN lastWrite :
    (~lastWrite[f].raced /\ \A q \in DOMAIN unit :
          (unit[q].pc \in {"write", "close"}) =>
             FilenameOf(unit[q].links[unit[q].li].title) # f)
    => disk[f] = FileContent(lastWrite[f].link,
                             ArticleBody(lastWrite[f].link.url.id))

\* C13 as stated, for the run that scripts/run-scraper.ts starts (its
\* indexUrl and baseUrl are no fields of the workflow's input, which falls
\* back on its list of index URLs): a fetched index page without a valid link
\* makes its step throw, so that the run fails and returns no counts
C13_ZeroLinksFailTheRun ==
  \A p \in DOMAIN unit :
    ZeroLinkPage(p) =>
      /\ unit[p].pc = "failed"
      /\ agg = NoResult
      /\ wf \in {"foreach", "failed"}

\* C15 as stated: sanitizeFilename applied to its own result returns that
\* result, for every title, those cut by the truncation included
C15_SanitizeIdempotent ==
  (pure.fn = "sanitizeFilename" /\ pure.pc = "again") => pure.again = pure.slug

\* C16 as stated: the slug of a title neither begins nor ends with a hyphen,
\* also when it was longer than 100 characters before the truncation
C16_NoOuterHyphen ==
  (pure.fn = "sanitizeFilename" /\ pure.pc # "call" /\ pure.slug # <<>>) =>
    (Head(pure.slug) # "-" /\ Last(pure.slug) # "-")

SlugChars == {"a", "b", "c", "d", "e", "0", "1", "-"}

\* C17: the slug of a title consists of characters of [a-z0-9-] only, has no
\* two adjacent hyphens and at most 100 characters
C17_SlugShape ==
  (pure.fn = "sanitizeFilename" /\ pure.pc # "call") =>
    /\ \A k \in 1..Len(pure.slug) : pure.slug[k] \in SlugChars
    /\ \A k \in 1..(Len(pure.slug) - 1) :
         ~(pure.slug[k] = "-" /\ pure.slug[k + 1] = "-")
    /\ Len(pure.slug) <= 100

\* a title of more than 100 characters, not all of them of [a-z0-9-], whose
\* slug was cut to exactly 100 characters
C17_Witness ==
  /\ pure.fn = "sanitizeFilename" /\ pure.pc = "returned"
  /\ Len(pure.title) > 100
  /\ \E k \in 1..Len(pure.title) : pure.title[k] \notin SlugChars
  /\ Len(pure.slug) = 100
  /\ Len(TrimHyphens(Hyphenate(StripDiacritics(NormalizeNFD(MapLower(pure.title)))))) > 100

\* C18 as stated: what the embedder parses from a file the scraper wrote is
\* exactly the article's title (also a title with double quotes, the escaped
\* quotes restored), its source URL and the Markdown body
C18_FrontmatterRoundTrip ==
  (pure.fn = "frontmatter" /\ pure.pc = "parsed") =>
    /\ pure.parsed.title = pure.link.title
    /\ pure.parsed.source = pure.link.url
    /\ pure.parsed.markdown = pure.markdown

\* source URL and body are recovered as they were written, and so is a
\* title without a double quote
C18_QuoteFreeRoundTrip ==
  (pure.fn = "frontmatter" /\ pure.pc = "parsed") =>
    /\ pure.parsed.source = pure.link.url
    /\ pure.parsed.markdown = pure.markdown
    /\ (\A k \in 1..Len(pure.link.title) : pure.link.title[k] # "\"")
         => pure.parsed.title = pure.link.title
    /\ pure.parsed.title = QuotedField(FileContent(pure.link, <<>>).title)

\* an anchor with an href of the article pattern and a title that is not
\* blank
IsArticleAnchor(a) ==
  /\ "none" \notin DOMAIN a.href
  /\ a.href.article
  /\ \E k \in 1..Len(a.text) : ~IsSpace(a.text[k])

\* C19: of a page with N valid article anchors and M invalid ones (no href,
\* blank title, href not of the article pattern) exactly the N valid ones
\* become links, in the order of the page, each with its trimmed title and
\* with a relative href resolved against the base URL
C19_ExactlyTheValidAnchors ==
  (pure.fn = "extractLinks" /\ pure.pc = "returned") =>
    LET valid == SelectSeq(pure.anchors, IsArticleAnchor)
    IN /\ Len(pure.links) = Len(valid)
       /\ \A k \in 1..Len(valid) :
            /\ pure.links[k].title = Trim(valid[k].text)
            /\ pure.links[k].url.id = valid[k].href.id
            /\ pure.links[k].url.host =
                 (IF valid[k].href.abs THEN valid[k].href.host ELSE pure.baseUrl)

\* a page with an invalid anchor between a relative and an absolute article
\* link
C19_Witness ==
  /\ pure.fn = "extractLinks" /\ pure.pc = "returned"
  /\ Len(pure.anchors) = 3
  /\ IsArticleAnchor(pure.anchors[1]) /\ ~pure.anchors[1].href.abs
  /\ ~IsArticleAnchor(pure.anchors[2])
  /\ IsArticleAnchor(pure.anchors[3]) /\ pure.anchors[3].href.abs
  /\ Len(pure.links) = 2

\* C20 as stated: the links extracted from one index page never hold the
\* same URL twice, and no article of a page is written twice
C20_LinksUniqueByUrl ==
  \A p \in DOMAIN unit :
    /\ \A i, j \in 1..Len(unit[p].links) :
         i # j => unit[p].links[i].url # unit[p].links[j].url
    /\ \A i, j \in 1..Len(unit[p].written) :
         i # j => unit[p].links[unit[p].written[i]].url
                  # unit[p].links[unit[p].written[j]].url

\* output/docs holds no entry that ends with .md
NoMarkdownFile == \A name \in DOMAIN disk : ~EndsWithMd(name)

\* C21: the re-embed run fails when output/docs is missing or holds no .md
\* file; chunkAndEmbed then never starts, so the run issues no listIndexes,
\* createIndex, truncateIndex, upsert or embedMany, and an index that existed
\* is left as it was
C21_DiscoverFailureTouchesNothing ==
  workflow = "embedDocs" =>
    /\ (~dirExists \/ NoMarkdownFile) =>
         /\ wf \in {"discoverFiles", "failed"}
         /\ ePc = "idle" /\ eFiles = <<>> /\ batch = <<>>
         /\ eResult = NoResult
         /\ index.recs = startIndex.recs
         /\ startIndex.exists => index = startIndex
    /\ \A k \in 1..Len(history) :
         history[k].threwAt = "discoverFiles" =>
           /\ history[k].status = "failed"
           /\ history[k].result = NoResult
           /\ history[k].files = <<>>
           /\ ~dirExists \/ NoMarkdownFile

\* a failed re-embed run over a directory with one file that is no Markdown,
\* beside an index that holds records
C21_Witness ==
  /\ workflow = "embedDocs" /\ wf = "failed"
  /\ Last(history).threwAt = "discoverFiles"
  /\ dirExists /\ DOMAIN disk = {OtherFile}
  /\ startup = "settled"
  /\ index.recs # {}

\* C22 as stated, for a run of the workflow that scripts/run-scraper.ts
\* starts: the run over one index URL scrapes that page only, never enters
\* chunkAndEmbed, issues no vector-store operation of its own, and what it
\* returns is the page's processed count and file list
C22_SinglePageScrapesOnly ==
  (workflow = "docsScraper" /\ Len(indexUrls) = 1) =>
    /\ ePc = "idle"
    /\ wf # "chunkAndEmbed"
    /\ index.recs = startIndex.recs
    /\ wf = "success" =>
         Last(history).result = [processed |-> unit[1].processed,
                                 files |-> unit[1].files]

\* the links of the page at position p whose article was written, in order
SucceededLinks(p) ==
  [k \in 1..Len(unit[p].written) |-> unit[p].links[unit[p].written[k]]]

\* C23: what a page unit returns depends on the articles that succeeded only:
\* two pages with the same written articles return the same processed and
\* files, whatever further articles of theirs failed, so a page whose
\* articles all failed returns processed 0 and no files, as a page without
\* links does
C23_ResultOfSucceededArticlesOnly ==
  \A p, q \in DOMAIN unit :
    (unit[p].pc = "done" /\ unit[q].pc = "done"
       /\ SucceededLinks(p) = SucceededLinks(q)) =>
      /\ UnitOutput(p).processed = UnitOutput(q).processed
      /\ UnitOutput(p).files = UnitOutput(q).files
      /\ UnitOutput(p).processed = Len(SucceededLinks(p))
      /\ UnitOutput(p).files =
           [k \in 1..Len(SucceededLinks(p)) |-> FilenameOf(SucceededLinks(p)[k].title)]

\* a page without links and a page whose three articles all failed, each in
\* its own way, have returned in one run
C23_Witness ==
  \E p, q \in DOMAIN unit :
    /\ unit[p].pc = "done" /\ ZeroLinkPage(p)
    /\ unit[q].pc = "done" /\ Len(unit[q].links) = 3
    /\ FetchCount(unit[q].log) = 3
    /\ unit[q].written = <<>>
    /\ UnitOutput(q).processed = 0 /\ UnitOutput(q).files = <<>>

\* C24: the article fetches of one page unit are strictly sequential: the
\* fetch of the link at position li is issued only when every earlier link
\* has been written or skipped, so the fetches issued so far are those of the
\* links up to li, at most one of them is outstanding, and no article is
\* written ahead of the link the loop stands at
C24_ArticleFetchesSequential ==
  \A p \in DOMAIN unit :
    LET u == unit[p]
    IN /\ FetchCount(u.log) <= Len(u.links)
       /\ u.pc \in {"fetchArticle", "write", "close"} =>
            /\ FetchCount(u.log) = u.li
            /\ Last(u.log) = "fetch"
            /\ \A k \in 1..Len(u.written) : u.written[k] < u.li
       /\ u.pc = "delay" =>
            /\ FetchCount(u.log) = u.li - 1
            /\ \A k \in 1..Len(u.written) : u.written[k] < u.li
       /\ (u.pc = "done" /\ u.indexOk) => FetchCount(u.log) = Len(u.links)

\* the third article of a page is being fetched after the first was written
\* and the second skipped, while the neighbour page is writing an article
C24_Witness ==
  \E p, q \in DOMAIN unit :
    /\ unit[p].pc = "fetchArticle" /\ unit[p].li = 3
    /\ unit[p].written = <<1>>
    /\ unit[q].pc = "write"

IsPrepare(o) == o.op \in {"createIndex", "truncateIndex"}

\* C25: a run that touches the index performs exactly one create-or-truncate
\* step, completed before its first upsert is issued: truncateIndex if and
\* only if listIndexes reported the index, createIndex with dimension 1536
\* and the cosine metric otherwise
C25_OneCreateOrTruncateBeforeUpserts ==
  /\ Len(SelectSeq(storeOps, IsPrepare)) <= 1
  /\ \A j \in 1..Len(storeOps) :
       /\ storeOps[j].op \in {"readFile", "embedMany", "upsert"} =>
            \E i \in 1..(j - 1) : IsPrepare(storeOps[i])
       /\ storeOps[j].op = "truncateIndex" =>
            (j > 1 /\ storeOps[j - 1] = Op("listIndexes", <<TRUE>>))
       /\ storeOps[j].op = "createIndex" =>
            /\ j > 1 /\ storeOps[j - 1] = Op("listIndexes", <<FALSE>>)
            /\ storeOps[j].arg = <<1536, "cosine">>
       /\ (storeOps[j].op = "listIndexes" /\ j < Len(storeOps)) =>
            storeOps[j + 1].op = (IF storeOps[j].arg[1] THEN "truncateIndex"
                                  ELSE "createIndex")
  /\ ePc \in {"readFile", "embedMany", "upsert"} =>
       /\ Len(SelectSeq(storeOps, IsPrepare)) = 1
       /\ index.exists /\ index.dimension = 1536 /\ index.metric = "cosine"
  /\ (wf = "success" /\ storeOps # <<>>) =>
       Len(SelectSeq(storeOps, IsPrepare)) = 1

\* the second upsert of a run that found no index and created it
C25_Witness ==
  /\ ePc = "upsert" /\ eI > 10
  /\ storeOps[2].op = "createIndex"
  /\ Len(SelectSeq(storeOps, LAMBDA o : o.op = "upsert")) = 2

\* C26: in the scrape+embed workflow chunkAndEmbed starts only when every
\* page unit has returned and the results are aggregated: while a unit is in
\* flight (or yet to start) the run has made no call to the vector store or
\* the embedding provider and no record of the index has changed
C26_EmbedAfterAllUnits ==
  workflow = "docsScraper" =>
    /\ (ePc # "idle" \/ storeOps # <<>>) =>
         /\ \A p \in DOMAIN unit : unit[p].pc = "done"
         /\ Len(results) = Len(indexUrls)
         /\ agg # NoResult
         /\ eFiles = agg.allFiles
    /\ (\E p \in DOMAIN unit : unit[p].pc # "done") =>
         /\ ePc = "idle" /\ storeOps = <<>>
         /\ index.recs = startIndex.recs

\* the embedding call of a run over four index pages is outstanding
C26_Witness ==
  /\ workflow = "docsScraper"
  /\ ePc = "embedMany"
  /\ Len(indexUrls) = 4
  /\ \A p \in DOMAIN unit : unit[p].pc = "done"

\* the positions of chunkAndEmbed at which a call that changes the index is
\* outstanding
MutationPcs == {"createIndex", "truncateIndex", "upsert"}

\* a step of the embed phase that changes the index
EmbedPhaseMutates ==
  /\ wf = "chunkAndEmbed" /\ ePc \in MutationPcs
  /\ startup' = startup

\* C27 (as stated): the index is changed by the embed phase only, and no
\* mutation of another actor is outstanding while the embed phase has a
\* createIndex, truncateIndex or upsert outstanding
C27_OnlyEmbedPhaseMutates ==
  [][/\ index' # index => EmbedPhaseMutates
     /\ ~(startup = "inFlight" /\ ePc \in MutationPcs)]_vars

\* C27 (amended): truncateIndex and upsert are issued by the embed phase only,
\* one call at a time; the one other mutation is the createIndex issued when
\* vector-store.ts is loaded, which may be outstanding during the embed phase
\* and changes the index only when it is absent, creating it empty
C27_EmbedPhaseOrStartupCreate ==
  [][index' # index =>
       \/ EmbedPhaseMutates
       \/ /\ startup = "inFlight" /\ startup' = "settled"
          /\ ~index.exists
          /\ index'.exists /\ index'.recs = {}
          /\ index'.dimension = EMBEDDING_DIMENSION
          /\ UNCHANGED <<ePc, storeOps>>]_vars

\* the load-time createIndex is outstanding while an upsert of the embed
\* phase is outstanding on an index that holds records
C27_Witness ==
  /\ startup = "inFlight"
  /\ wf = "chunkAndEmbed" /\ ePc = "upsert"
  /\ index.recs # {}

\* C29: in a scrape+embed run the aggregated allFiles names no file twice, so
\* no file is read twice by chunkAndEmbed
C29_EachFileEmbeddedOnce ==
  workflow = "docsScraper" =>
    /\ agg # NoResult =>
         \A i, j \in 1..Len(agg.allFiles) :
            agg.allFiles[i] = agg.allFiles[j] => i = j
    /\ \A i, j \in 1..Len(storeOps) :
         (storeOps[i].op = "readFile" /\ storeOps[i] = storeOps[j]) => i = j

\* C28: the ids of an upsert differ from the ids of every record the run has
\* stored before, and a run that has prepared the index and returns leaves as
\* many records in the index as the totalEmbedded it returns
C28_UpsertIdsDistinct ==
  /\ (wf = "chunkAndEmbed" /\ ePc = "upsert") =>
       \A n \in BatchRecords(batch, run, eI) :
          \A r \in index.recs : r.run = run => r.id # n.id
  /\ (wf = "success" /\ eResult # NoResult /\ storeOps # <<>>) =>
       Cardinality(index.recs) = eResult.totalEmbedded

\* the calls of the given kind among the first n calls of the run
CallsOf(kind, n) == Cardinality({ i \in 1..n : storeOps[i].op = kind })

\* the embedding calls and upserts issued and not yet resolved after the first
\* n calls of the run
Outstanding(n) ==
  (CallsOf("embedMany", n) - CallsOf("embedManyDone", n))
    + (CallsOf("upsert", n) - CallsOf("upsertDone", n))

\* the files read so far, in the order of their reading
FilesRead == [i \in 1..CallsOf("readFile", Len(storeOps)) |->
                SelectSeq(storeOps, LAMBDA o : o.op = "readFile")[i].arg]

\* C30: chunkAndEmbed reads the files in the order of the file list; the
\* chunks handed to embedMany and upsert are those of the batch's files, file
\* after file and in document order inside a file; at most one embedding call
\* or upsert is outstanding, none when a file is read, and the calls of a
\* batch come after those of the batches before it
C30_BatchesSequentialInOrder ==
  wf = "chunkAndEmbed" =>
    /\ Len(FilesRead) <= Len(eFiles)
    /\ FilesRead = SubSeq(eFiles, 1, Len(FilesRead))
    /\ ePc \in {"embedMany", "upsert"} =>
         LET files == BatchFiles(eFiles, eI)
         IN batch = Flatten([j \in 1..Len(files) |->
                               FileChunks(files[j], disk[files[j]])])
    /\ \A n \in 0..Len(storeOps) :
         /\ Outstanding(n) \in {0, 1}
         /\ (n < Len(storeOps) /\ storeOps[n + 1].op = "readFile") =>
              Outstanding(n) = 0
    /\ \A i, j \in 1..Len(storeOps) :
         ( /\ i < j
           /\ storeOps[i].op \in {"embedMany", "embedManyDone", "upsert", "upsertDone"}
           /\ storeOps[j].op \in {"embedMany", "embedManyDone", "upsert", "upsertDone"} )
         => storeOps[i].arg[1] <= storeOps[j].arg[1]

\* the first file of the second batch has been read after the upsert of the
\* first batch resolved, the batch holding the chunks of several files
C30_Witness ==
  /\ wf = "chunkAndEmbed" /\ ePc = "readFile"
  /\ eI = BATCH_SIZE + 1 /\ eJ = 2
  /\ \E i \in 1..Len(storeOps) : storeOps[i] = Op("upsertDone", <<1>>)
  /\ Len(batch) >= 1

\* C31: the first article fetch of an index page is issued right after link
\* extraction: the first entry of a unit's record of pauses and fetches is a
\* fetch, and no pause is under way before a fetch has been issued
C31_NoPauseBeforeFirstFetch ==
  \A p \in DOMAIN unit :
    LET u == unit[p] IN
    /\ u.log # <<>> => u.log[1] = "fetch"
    /\ u.pc = "delay" => FetchCount(u.log) >= 1
    /\ (u.links # <<>> /\ u.pc \notin {"pending", "fetchIndex"}) => u.log # <<>>

\* a unit with several links has issued its first fetch and nothing else
C31_Witness ==
  \E p \in DOMAIN unit :
    /\ unit[p].pc = "fetchArticle"
    /\ Len(unit[p].links) >= 2
    /\ unit[p].log = <<"fetch">>

\* the positions of chunkAndEmbed between the truncation (or creation) of the
\* index and the return
LoopPcs == {"readFile", "embedMany", "upsert"}

\* C32: a query that reaches the store while chunkAndEmbed is in its batch
\* loop finds the index as the run has built it so far and nothing else: none
\* of the records of before the run, and of the records the run ends with
\* only those of the batches upserted before the query (no swap from the old
\* contents to the new)
C32_ReaderSeesPartialIndex ==
  (seen # NoQuery /\ seen.wf = "chunkAndEmbed" /\ seen.ePc \in LoopPcs) =>
    /\ seen.found
    /\ \A r \in seen.recs : r.run = seen.run /\ r.at < seen.eI
    /\ \A k \in 1..Len(history) :
         (history[k].run = seen.run /\ history[k].status = "success") =>
           seen.recs = { r \in history[k].recs : r.at < seen.eI }

\* a query made while the second batch was being read found the records of
\* the first batch only; the run went on to store more, over an index that
\* held other records before the run
C32_Witness ==
  /\ seen # NoQuery
  /\ seen.wf = "chunkAndEmbed" /\ seen.ePc = "readFile"
  /\ seen.eI = BATCH_SIZE + 1
  /\ seen.recs # {}
  /\ seen.run = run /\ wf = "success"
  /\ startIndex.recs # {}
  /\ Cardinality(seen.recs) < Cardinality(index.recs)

\* C33: nothing is fetched again. A unit issues the fetch of its index page
\* when it starts and never after; a unit that has returned or thrown does
\* nothing more; the k-th article fetch of a unit is the fetch of its k-th
\* link, so no link is fetched twice, whether its fetch failed or not
C33_NoRetry ==
  [][\A p \in DOMAIN unit :
       LET u == unit[p]
           v == unit'[p]
       IN /\ (v.pc = "fetchIndex" /\ u.pc # "fetchIndex") => u.pc = "pending"
          /\ u.pc \in {"done", "failed"} => v = u
          /\ FetchCount(v.log) \in {FetchCount(u.log), FetchCount(u.log) + 1}
          /\ FetchCount(v.log) = FetchCount(u.log) + 1 =>
               /\ v.li = FetchCount(v.log)
               /\ v.li \in 1..Len(v.links)
               /\ v.pc = "fetchArticle"]_vars

\* a unit has returned after the fetch of each of its several articles
\* failed: every link was fetched once and nothing was written
C33_Witness ==
  \E p \in DOMAIN unit :
    /\ unit[p].pc = "done"
    /\ Len(unit[p].links) >= 2
    /\ unit[p].written = <<>>
    /\ FetchCount(unit[p].log) = Len(unit[p].links)

\* C34: no step of the re-embed workflow changes output/docs (no file is
\* created, replaced or removed, the directory is not created) and none
\* starts a processIndexUrl execution, the only code that fetches from the
\* help site; the files the run reads are files of the directory
C34_ReembedOnlyReads ==
  [][workflow = "embedDocs" =>
       /\ UNCHANGED <<dirExists, disk, lastWrite>>
       /\ unit = <<>> /\ unit' = <<>>
       /\ \A i \in 1..Len(storeOps') :
            storeOps'[i].op = "readFile" => storeOps'[i].arg \in DOMAIN disk]_vars

\* a re-embed run over a directory of several files has returned after
\* storing records
C34_Witness ==
  /\ workflow = "embedDocs" /\ wf = "success"
  /\ Cardinality(DOMAIN disk) >= 2
  /\ eResult # NoResult /\ eResult.totalEmbedded > 0
  /\ \E i \in 1..Len(storeOps) : storeOps[i].op = "readFile"

\* C35: the index exists from startup on: every query of the knowledge tool
\* finds the index, and every listIndexes of an embed run reports it
C35_IndexExistsFromStartup ==
  /\ seen # NoQuery => seen.found
  /\ \A i \in 1..Len(storeOps) :
       storeOps[i].op = "listIndexes" => storeOps[i].arg = <<TRUE>>

\* C36: at every point of a page unit files has as many entries as processed
\* counts, and they are the filenames of the articles written so far, in link
\* order; the aggregate's totalProcessed is the length of allFiles
C36_FilesMatchProcessed ==
  /\ \A p \in DOMAIN unit :
       LET u == unit[p] IN
       /\ Len(u.files) = u.processed
       /\ Len(u.written) = u.processed
       /\ \A k \in 1..Len(u.written) :
            /\ u.written[k] \in 1..Len(u.links)
            /\ u.written[k] < u.li
            /\ k > 1 => u.written[k - 1] < u.written[k]
            /\ u.files[k] = FilenameOf(u.links[u.written[k]].title)
  /\ agg # NoResult => agg.totalProcessed = Len(agg.allFiles)

\* the results of two pages that wrote articles are aggregated while on one
\* of the pages an article had failed
C36_Witness ==
  /\ agg # NoResult
  /\ agg.totalProcessed >= 3
  /\ \E p, q \in DOMAIN unit :
       /\ p # q
       /\ unit[p].processed >= 1 /\ unit[q].processed >= 1
       /\ unit[p].processed < Len(unit[p].links)

\* the units with an HTTP request to the help site outstanding
Requesting == { p \in DOMAIN unit : unit[p].pc \in {"fetchIndex", "fetchArticle"} }

\* C37: at most two requests to the help site are outstanding, one per unit
\* of the running slice, and a unit's pause ends whatever the other unit is
\* doing: the fetch after a pause can always be issued
C37_TwoRequestsIndependentPauses ==
  /\ Cardinality(Requesting) <= Concurrency
  /\ Requesting \subseteq ChunkItems(chunkAt)
  /\ \A p \in DOMAIN unit : unit[p].pc = "delay" => ENABLED DelayElapsed(p)

\* a unit is in its pause while the other unit of the slice has an article
\* request outstanding
C37_Witness ==
  \E p, q \in DOMAIN unit :
    /\ p # q
    /\ unit[p].pc = "delay"
    /\ unit[q].pc = "fetchArticle"

\* a run of a workflow has ended, with a result or with an error
RunEnded == wf \in {"success", "failed"}

\* C38: every run that has started ends, with a result or an error; on the
\* way a page unit only moves forward through its links and chunkAndEmbed
\* only moves forward through the file list
C38_EveryRunEnds ==
  /\ (~RunEnded) ~> RunEnded
  /\ [][/\ \A p \in DOMAIN unit :
            /\ unit'[p].li >= unit[p].li
            /\ unit[p].li <= Len(unit[p].links) + 1
       /\ (run' = run /\ ePc' \notin {"idle", "start"} /\ eI >= 1) =>
            \/ eI' > eI
            \/ eI' = eI /\ eJ' >= eJ]_vars

\* a scrape+embed run over two slices of pages has returned after storing
\* records
C38_Witness ==
  /\ workflow = "docsScraper" /\ wf = "success"
  /\ Len(indexUrls) = Concurrency + 1
  /\ eResult # NoResult /\ eResult.totalEmbedded > 0

====
